---- MODULE Spec2Model ----
(***************************************************************************)
(* Model of the ingestion orchestrator and the storage layer of the        *)
(* peertube-plugin-aichat plugin.                                           *)
(*                                                                          *)
(*   src/server/video-processor.js  lines 1-591   orchestrator              *)
(*   src/server/chat-service.js     lines 1-276   chat service              *)
(*   src/server/chat-service.js     lines 277-942 database service          *)
(*   src/main.js                                  hooks and routes          *)
(*                                                                          *)
(* Every handler is one action.  A processVideo run is a process whose      *)
(* position (pc) advances one awaited stage at a time, so that hooks,       *)
(* timers and other runs interleave with it at the awaits.                  *)
(*                                                                          *)
(* Faults that are modelled: a chunk write that throws (saveVideoEmbedding),*)
(* an embedding request that fails, a frame extraction or analysis that     *)
(* fails, and an exception inside extractVideoSnapshots (fs.mkdir).  Reads  *)
(* of the storage and writes to the processing queue are taken to succeed.  *)
(* For a chat message: a failed embedding request, chunk search, read of   *)
(* the history or completion request.                                       *)
(***************************************************************************)
EXTENDS Integers, Sequences, FiniteSets, Bags, TLC

----------------------------------------------------------------------------
(* Bounds of the model *)

\* hook events and manual triggers delivered in one behaviour
MaxEvents == 2
\* duration of the asset in seconds (fullVideo.duration)
VideoDuration == 1

Assets == {"v1"}

----------------------------------------------------------------------------
(* Program constants *)

READY_STATE == 1
TO_TRANSCODE == 2
MAX_RETRIES == 5
RETRY_DELAYS == <<30000, 60000, 120000, 300000, 600000>>
MAX_TRANSCRIPT_RETRIES == 5
TRANSCRIPT_RETRY_DELAY == 60000
chunkDuration == 30
DefaultSnapshotInterval == 5

NULL == "null"
NOW == "now"

TimeoutMessage == "Video transcoding did not complete in time"
MkdirMessage == "ENOENT: mkdir failed"
FrameDescription == "frame description"

\* `Waiting for transcoding (attempt ${retryCount + 1})`
WaitingMessages ==
  << "Waiting for transcoding (attempt 1)", "Waiting for transcoding (attempt 2)",
     "Waiting for transcoding (attempt 3)", "Waiting for transcoding (attempt 4)",
     "Waiting for transcoding (attempt 5)", "Waiting for transcoding (attempt 6)" >>

WaitingMessage(retryCount) == WaitingMessages[retryCount + 1]

----------------------------------------------------------------------------
(* State *)

VARIABLES
  isConnected,        \* database-service: TRUE native (PostgreSQL), FALSE fallback
  openaiInitialized,  \* openaiService.isInitialized()
  videoState,         \* catalog: state id of each asset
  captionAvailable,   \* catalog: whether a caption file of the asset can be read
  queue,              \* processing queue: sequence of rows
  embeddings,         \* chunk store: per asset, sequence of rows
  snapshots,          \* frame store: per asset, sequence of rows
  qTimers,            \* bag of pending setTimeout of queueVideoForProcessing
  tTimers,            \* bag of pending setTimeout of checkAndProcessTranscript
  runs,               \* bag of the processVideo runs in flight
  nEvents,            \* hook events and triggers delivered so far
  call,               \* the call of a storage or helper function under study
  result,             \* what that call returned
  sessions,           \* chat sessions: per storage key, rows in creation order
  apiUsage,           \* usage records (plugin_ai_api_usage / 'api_usage')
  providerCalls       \* chat completion requests sent to the provider

vars == << isConnected, openaiInitialized, videoState, captionAvailable, queue,
           embeddings, snapshots, qTimers, tTimers, runs, nEvents, call, result,
           sessions, apiUsage, providerCalls >>

----------------------------------------------------------------------------
(* Processing queue (plugin_ai_processing_queue / 'processing_queue') *)

QueueHas(q, videoUuid) == \E i \in DOMAIN q : q[i].videoUuid = videoUuid

\* Array.prototype.find: the first row of the asset
QueueFind(q, videoUuid) ==
  CHOOSE i \in DOMAIN q :
    /\ q[i].videoUuid = videoUuid
    /\ \A j \in DOMAIN q : q[j].videoUuid = videoUuid => i <= j

NewQueueRow(videoUuid) ==
  [videoUuid |-> videoUuid, status |-> "pending", errorMessage |-> NULL, processedAt |-> NULL]

\* mutant: the insert without the conflict clause
addToProcessingQueueAlwaysInsert(q, videoUuid) == Append(q, NewQueueRow(videoUuid))

\* INSERT ... ON CONFLICT (video_uuid) DO NOTHING
addToProcessingQueueNative(q, videoUuid) ==
  IF QueueHas(q, videoUuid) THEN q ELSE Append(q, NewQueueRow(videoUuid))

addToProcessingQueueFallback(q, videoUuid) ==
  IF QueueHas(q, videoUuid) THEN q ELSE Append(q, NewQueueRow(videoUuid))

addToProcessingQueue(q, videoUuid) ==
  IF ~isConnected THEN addToProcessingQueueFallback(q, videoUuid)
  ELSE addToProcessingQueueNative(q, videoUuid)

\* mutant: the stamp is set on every terminal status
ProcessedAtOnTerminal(status) == IF status \in {"completed", "error"} THEN NOW ELSE NULL

\* CASE WHEN status = 'completed' THEN NOW() ELSE NULL END
ProcessedAtFor(status) == IF status = "completed" THEN NOW ELSE NULL

\* UPDATE ... SET status, error_message, processed_at WHERE video_uuid = $1
updateProcessingStatusNative(q, videoUuid, status, errorMessage) ==
  [i \in DOMAIN q |->
     IF q[i].videoUuid = videoUuid
     THEN [q[i] EXCEPT !.status = status,
                       !.errorMessage = errorMessage,
                       !.processedAt = ProcessedAtFor(status)]
     ELSE q[i]]

updateProcessingStatusFallback(q, videoUuid, status, errorMessage) ==
  IF QueueHas(q, videoUuid)
  THEN [q EXCEPT ![QueueFind(q, videoUuid)] =
          [@ EXCEPT !.status = status,
                    !.processedAt = ProcessedAtFor(status),
                    !.errorMessage = errorMessage]]
  ELSE q

updateProcessingStatus(q, videoUuid, status, errorMessage) ==
  IF ~isConnected THEN updateProcessingStatusFallback(q, videoUuid, status, errorMessage)
  ELSE updateProcessingStatusNative(q, videoUuid, status, errorMessage)

\* getProcessingStatus(videoUuid).status; "none" when the asset has no row
getProcessingStatus(q, videoUuid) ==
  IF QueueHas(q, videoUuid) THEN q[QueueFind(q, videoUuid)].status ELSE "none"

----------------------------------------------------------------------------
(* Chunk store (plugin_ai_video_embeddings / 'video_embeddings') *)

NoEmbedding == <<>>

ChunkRow(chunkIndex, data) ==
  [chunkIndex |-> chunkIndex, startTime |-> data.startTime, endTime |-> data.endTime,
   content |-> data.content, embedding |-> data.embedding]

\* findIndex(c => c.chunkIndex === chunkIndex), 1-based, 0 when absent
RECURSIVE ChunkFindIndexFrom(_, _, _)
ChunkFindIndexFrom(rows, i, chunkIndex) ==
  IF i > Len(rows) THEN 0
  ELSE IF rows[i].chunkIndex = chunkIndex THEN i
  ELSE ChunkFindIndexFrom(rows, i + 1, chunkIndex)

\* INSERT ... ON CONFLICT (video_uuid, chunk_index) DO UPDATE SET ...
saveVideoEmbeddingNative(rows, chunkIndex, data) ==
  IF \E i \in DOMAIN rows : rows[i].chunkIndex = chunkIndex
  THEN [i \in DOMAIN rows |->
          IF rows[i].chunkIndex = chunkIndex THEN ChunkRow(chunkIndex, data) ELSE rows[i]]
  ELSE Append(rows, ChunkRow(chunkIndex, data))

\* mutant: the chunk is pushed without looking for its index
saveVideoEmbeddingAlwaysPush(rows, chunkIndex, data) ==
  Append(rows, ChunkRow(chunkIndex, data))

saveVideoEmbeddingFallback(rows, chunkIndex, data) ==
  LET existingIndex == ChunkFindIndexFrom(rows, 1, chunkIndex)
  IN  IF existingIndex >= 1
      THEN [rows EXCEPT ![existingIndex] = ChunkRow(chunkIndex, data)]
      ELSE Append(rows, ChunkRow(chunkIndex, data))

saveVideoEmbedding(rows, chunkIndex, data) ==
  IF ~isConnected THEN saveVideoEmbeddingFallback(rows, chunkIndex, data)
  ELSE saveVideoEmbeddingNative(rows, chunkIndex, data)

\* stable insertion into a sequence sorted ascending by chunkIndex
RECURSIVE ChunkInsertSorted(_, _)
ChunkInsertSorted(s, x) ==
  IF s = <<>> THEN <<x>>
  ELSE IF x.chunkIndex < s[1].chunkIndex THEN <<x>> \o s
  ELSE <<s[1]>> \o ChunkInsertSorted(Tail(s), x)

RECURSIVE OrderByChunkIndex(_)
OrderByChunkIndex(s) ==
  IF s = <<>> THEN <<>>
  ELSE ChunkInsertSorted(OrderByChunkIndex(SubSeq(s, 1, Len(s) - 1)), s[Len(s)])

\* SELECT ... WHERE video_uuid = $1 ORDER BY chunk_index
getVideoEmbeddingsNative(rows) == OrderByChunkIndex(rows)

getVideoEmbeddingsFallback(rows) == rows

getVideoEmbeddings(rows) ==
  IF ~isConnected THEN getVideoEmbeddingsFallback(rows) ELSE getVideoEmbeddingsNative(rows)

----------------------------------------------------------------------------
(* Frame store (plugin_ai_video_snapshots / 'video_snapshots') *)

SnapshotRow(timestamp, filePath, description) ==
  [timestamp |-> timestamp, filePath |-> filePath, description |-> description]

\* INSERT ... ON CONFLICT (video_uuid, timestamp) DO UPDATE SET file_path, description
saveVideoSnapshotNative(rows, timestamp, filePath, description) ==
  IF \E i \in DOMAIN rows : rows[i].timestamp = timestamp
  THEN [i \in DOMAIN rows |->
          IF rows[i].timestamp = timestamp
          THEN SnapshotRow(timestamp, filePath, description) ELSE rows[i]]
  ELSE Append(rows, SnapshotRow(timestamp, filePath, description))

\* snapshots.sort((a, b) => a.timestamp - b.timestamp): the sort is stable, a
\* row goes after the rows of a smaller timestamp and after the earlier rows of
\* the same timestamp
SortByTimestamp(s) ==
  LET before(i) == { j \in DOMAIN s : \/ s[j].timestamp < s[i].timestamp
                                      \/ s[j].timestamp = s[i].timestamp /\ j < i }
  IN  [k \in DOMAIN s |-> s[CHOOSE i \in DOMAIN s : Cardinality(before(i)) = k - 1]]

saveVideoSnapshotFallback(rows, timestamp, filePath, description) ==
  IF \E i \in DOMAIN rows : rows[i].timestamp = timestamp
  THEN rows
  ELSE SortByTimestamp(Append(rows, SnapshotRow(timestamp, filePath, description)))

saveVideoSnapshot(rows, timestamp, filePath, description) ==
  IF ~isConnected THEN saveVideoSnapshotFallback(rows, timestamp, filePath, description)
  ELSE saveVideoSnapshotNative(rows, timestamp, filePath, description)

----------------------------------------------------------------------------
(* Caption segmenter (video-processor.js parseTranscript) *)

\* lines of a caption file: a cue line "start --> end" carries the parts of its
\* start time as split(':') gives them; a text line carries its trimmed text
CueLine(parts) == [kind |-> "cue", parts |-> parts, text |-> ""]
TextLine(text) == [kind |-> "text", parts |-> <<>>, text |-> text]
HeaderLine == [kind |-> "header", parts |-> <<>>, text |-> "WEBVTT"]
BlankLine == [kind |-> "blank", parts |-> <<>>, text |-> ""]

parseTimestamp(parts) ==
  IF Len(parts) = 3 THEN parts[1] * 3600 + parts[2] * 60 + parts[3]
  ELSE IF Len(parts) = 2 THEN parts[1] * 60 + parts[2]
  ELSE 0

\* mutant: chunks numbered from 1
NewChunkNumberedFromOne(index, startTime) ==
  [index |-> index + 1, startTime |-> startTime, endTime |-> 0, content |-> <<>>]

NewChunk(index, startTime) ==
  [index |-> index, startTime |-> startTime, endTime |-> 0, content |-> <<>>]

\* the last chunk: currentChunk.endTime = currentTime || startTime + chunkDuration
FlushLast(chunks, currentChunk, currentTime) ==
  IF currentChunk.content # <<>>
  THEN Append(chunks, [currentChunk EXCEPT !.endTime =
                         IF currentTime # 0 THEN currentTime
                         ELSE currentChunk.startTime + chunkDuration])
  ELSE chunks

RECURSIVE ParseLines(_, _, _, _, _)
ParseLines(lines, i, chunks, currentChunk, currentTime) ==
  IF i > Len(lines) THEN FlushLast(chunks, currentChunk, currentTime)
  ELSE IF lines[i].kind = "cue"
  THEN ParseLines(lines, i + 1, chunks, currentChunk, parseTimestamp(lines[i].parts))
  ELSE IF lines[i].kind = "text"
  THEN LET withText == [currentChunk EXCEPT !.content = Append(@, lines[i].text)]
       IN  IF currentTime - withText.startTime >= chunkDuration
           THEN LET closed == Append(chunks, [withText EXCEPT !.endTime = currentTime])
                IN  ParseLines(lines, i + 1, closed, NewChunk(Len(closed), currentTime),
                               currentTime)
           ELSE ParseLines(lines, i + 1, chunks, withText, currentTime)
  ELSE ParseLines(lines, i + 1, chunks, currentChunk, currentTime)

parseTranscript(transcriptText) == ParseLines(transcriptText, 1, <<>>, NewChunk(0, 0), 0)

\* the caption file of the asset: cues at 0:00, 0:15, 0:45 and 1:00
CaptionFile ==
  << HeaderLine, BlankLine,
     CueLine(<<0, 0, 0>>), TextLine("intro talk"), BlankLine,
     CueLine(<<0, 0, 15>>), TextLine("intro talk"), BlankLine,
     CueLine(<<0, 0, 45>>), TextLine("intro talk"), BlankLine,
     CueLine(<<0, 1, 0>>), TextLine("outro") >>

NoTranscript == <<>>

\* parseTranscript(CaptionFile), evaluated once
CaptionChunks == parseTranscript(CaptionFile)

\* parseTranscript(transcriptData) as processVideoTranscript calls it
ParsedChunks(transcriptData) ==
  IF transcriptData = CaptionFile THEN CaptionChunks ELSE parseTranscript(transcriptData)

\* getVideoTranscript: the caption content, or null when none can be read
getVideoTranscript(a) == IF captionAvailable[a] THEN CaptionFile ELSE NoTranscript

\* openaiService.generateEmbedding(content)
generateEmbedding(content) == << Len(content), 1 >>

----------------------------------------------------------------------------
(* Transcript stage (processVideoTranscript, generateVideoEmbeddings,      *)
(* checkAndProcessTranscript)                                               *)

\* the for loop of processVideoTranscript from chunk i on; the save of chunk
\* number failAt throws, which leaves the loop (0: no save throws)
RECURSIVE StoreChunksFrom(_, _, _, _)
StoreChunksFrom(rows, chunks, i, failAt) ==
  IF i > Len(chunks) \/ i = failAt THEN rows
  ELSE StoreChunksFrom(
         saveVideoEmbedding(rows, chunks[i].index,
           [startTime |-> chunks[i].startTime, endTime |-> chunks[i].endTime,
            content |-> chunks[i].content, embedding |-> NoEmbedding]),
         chunks, i + 1, failAt)

processVideoTranscript(rows, a, failAt) ==
  LET transcriptData == getVideoTranscript(a)
  IN  IF transcriptData = NoTranscript THEN rows
      ELSE StoreChunksFrom(rows, ParsedChunks(transcriptData), 1, failAt)

\* whether a save of processVideoTranscript threw (and was caught there)
ChunkWriteThrew(a, failAt) ==
  /\ getVideoTranscript(a) # NoTranscript
  /\ failAt \in 1..Len(ParsedChunks(getVideoTranscript(a)))

\* the for loop of generateVideoEmbeddings over the chunks read at its start;
\* embedFails: the chunk indices whose embedding request or save fails
RECURSIVE EmbedChunksFrom(_, _, _, _)
EmbedChunksFrom(rows, chunks, i, embedFails) ==
  IF i > Len(chunks) THEN rows
  ELSE IF chunks[i].embedding # NoEmbedding \/ chunks[i].chunkIndex \in embedFails
  THEN EmbedChunksFrom(rows, chunks, i + 1, embedFails)
  ELSE EmbedChunksFrom(
         saveVideoEmbedding(rows, chunks[i].chunkIndex,
           [startTime |-> chunks[i].startTime, endTime |-> chunks[i].endTime,
            content |-> chunks[i].content,
            embedding |-> generateEmbedding(chunks[i].content)]),
         chunks, i + 1, embedFails)

generateVideoEmbeddings(rows, embedFails) ==
  IF ~openaiInitialized THEN rows
  ELSE EmbedChunksFrom(rows, getVideoEmbeddings(rows), 1, embedFails)

\* mutant: one retry too many
ShouldRetryTranscriptOffByOne(newEmbeddings, retryCount) ==
  newEmbeddings = <<>> /\ retryCount <= MAX_TRANSCRIPT_RETRIES

ShouldRetryTranscript(newEmbeddings, retryCount) ==
  newEmbeddings = <<>> /\ retryCount < MAX_TRANSCRIPT_RETRIES

\* the faults one call can meet: which chunk save throws (0: none) and which
\* embedding requests fail.  Only the faults the call can run into are
\* enumerated.
Faults(a) ==
  LET chunks == ParsedChunks(getVideoTranscript(a))
      acquires == getVideoEmbeddings(embeddings[a]) = <<>> /\ chunks # <<>>
  IN  [saveFailAt : IF acquires THEN 0..Len(chunks) ELSE {0},
       embedFails : IF acquires /\ openaiInitialized
                    THEN SUBSET {chunks[k].index : k \in DOMAIN chunks} ELSE {{}}]

\* one call of checkAndProcessTranscript(video, retryCount) under the faults f:
\* the chunk rows it leaves, whether it schedules a retry, and whether a chunk
\* write threw inside processVideoTranscript
checkAndProcessTranscript(a, retryCount, f) ==
  LET rows0 == embeddings[a]
      embedded == generateVideoEmbeddings(processVideoTranscript(rows0, a, f.saveFailAt),
                                          f.embedFails)
  IN  IF getVideoEmbeddings(rows0) # <<>>
      THEN [rows |-> rows0, retry |-> FALSE, writeThrew |-> FALSE]
      ELSE [rows |-> embedded,
            retry |-> ShouldRetryTranscript(getVideoEmbeddings(embedded), retryCount),
            writeThrew |-> ChunkWriteThrew(a, f.saveFailAt)]

----------------------------------------------------------------------------
(* Frame stage (extractVideoSnapshots, analyzeSnapshots) *)

\* values of the 'snapshot-interval' setting after parseInt
IntervalSettings == {0, 5, 61}

\* the validation of the configured interval
snapshotInterval(configured) ==
  IF configured < 1 THEN DefaultSnapshotInterval
  ELSE IF configured > 60 THEN 60
  ELSE configured

\* for (timestamp = 0; timestamp < duration; timestamp += interval)
SnapshotTimestamps(interval, duration) ==
  [k \in 1..((duration + interval - 1) \div interval) |-> (k - 1) * interval]

SnapshotPath(timestamp) == << "snapshot", timestamp >>

\* saveVideoSnapshot for the timestamps of the sequence that are in `saved`
\* mutant: the loop ends at the first timestamp that fails
SaveSnapshotsUntilFailure(rows, timestamps, i, saved, description) ==
  LET failures == { k \in DOMAIN timestamps : timestamps[k] \notin saved }
      kept == { timestamps[k] : k \in { k \in DOMAIN timestamps :
                                          \A f \in failures : k < f } }
      keep(row) == row.timestamp \in kept
  IN  rows \o SelectSeq([k \in DOMAIN timestamps |->
                           SnapshotRow(timestamps[k], SnapshotPath(timestamps[k]), description)],
                        keep)

RECURSIVE SaveSnapshotsFrom(_, _, _, _, _)
SaveSnapshotsFrom(rows, timestamps, i, saved, description) ==
  IF i > Len(timestamps) THEN rows
  ELSE IF timestamps[i] \notin saved
  THEN SaveSnapshotsFrom(rows, timestamps, i + 1, saved, description)
  ELSE SaveSnapshotsFrom(
         saveVideoSnapshot(rows, timestamps[i], SnapshotPath(timestamps[i]), description),
         timestamps, i + 1, saved, description)

\* extracted: the timestamps whose ffmpeg run succeeds; analyzed: those among
\* them whose image analysis succeeds
extractVideoSnapshotsOf(rows, configured, duration, extracted, analyzed) ==
  LET timestamps == SnapshotTimestamps(snapshotInterval(configured), duration)
      withFrames == SaveSnapshotsFrom(rows, timestamps, 1, extracted, NULL)
  IN  IF openaiInitialized /\ extracted # {}
      THEN SaveSnapshotsFrom(withFrames, timestamps, 1, analyzed, FrameDescription)
      ELSE withFrames

extractVideoSnapshots(rows, configured, extracted, analyzed) ==
  extractVideoSnapshotsOf(rows, configured, VideoDuration, extracted, analyzed)

TimestampSet(configured) ==
  { SnapshotTimestamps(snapshotInterval(configured), VideoDuration)[k] :
      k \in DOMAIN SnapshotTimestamps(snapshotInterval(configured), VideoDuration) }

----------------------------------------------------------------------------
(* Orchestrator (queueVideoForProcessing, processVideo) *)

isVideoReady(state) == state = READY_STATE

\* mutant: one retry too many
ShouldRetryOffByOne(retryCount) == retryCount <= MAX_RETRIES

ShouldRetry(retryCount) == retryCount < MAX_RETRIES

\* RETRY_DELAYS[retryCount]; an index past the array gives undefined, which
\* setTimeout takes as no delay
RetryDelay(retryCount) ==
  IF retryCount + 1 \in DOMAIN RETRY_DELAYS THEN RETRY_DELAYS[retryCount + 1] ELSE 0

Timer(a, retryCount, delay) == [asset |-> a, retryCount |-> retryCount, delay |-> delay]

\* retrigger: the record of the asset was completed when processVideo was called
NewRun(a) ==
  [asset |-> a, pc |-> "start", error |-> NULL, writeThrew |-> FALSE,
   retrigger |-> getProcessingStatus(queue, a) = "completed"]

\* the bag b with one copy of x replaced by y
Replace(b, x, y) == (b (-) SetToBag({x})) (+) SetToBag({y})

\* the number of processVideo runs of the asset that have not returned
RunsInFlight(a) ==
  BagCardinality([r \in {x \in BagToSet(runs) : x.asset = a} |-> runs[r]])

\* queueVideoForProcessing(video, retryCount); timers: the pending retry timers
\* without the one that made this call
queueVideoForProcessing(a, retryCount, timers) ==
  IF ~isVideoReady(videoState[a])
  THEN IF ShouldRetry(retryCount)
       THEN /\ qTimers' = timers (+) SetToBag({Timer(a, retryCount + 1, RetryDelay(retryCount))})
            /\ queue' = updateProcessingStatus(addToProcessingQueue(queue, a), a,
                                               "pending", WaitingMessage(retryCount))
            /\ runs' = runs
       ELSE /\ queue' = updateProcessingStatus(queue, a, "error", TimeoutMessage)
            /\ qTimers' = timers
            /\ runs' = runs
  ELSE /\ queue' = addToProcessingQueue(queue, a)
       /\ runs' = runs (+) SetToBag({NewRun(a)})
       /\ qTimers' = timers

\* the effect of one checkAndProcessTranscript(video, retryCount) call that is
\* not awaited by a processVideo run (a hook or a retry timer)
TranscriptCall(a, retryCount, timers, f) ==
  LET out == checkAndProcessTranscript(a, retryCount, f)
  IN  /\ embeddings' = [embeddings EXCEPT ![a] = out.rows]
      /\ tTimers' = IF out.retry
                    THEN timers (+) SetToBag({Timer(a, retryCount + 1, TRANSCRIPT_RETRY_DELAY)})
                    ELSE timers

----------------------------------------------------------------------------
(* Chat sessions, usage records and cleanup (database service) *)

\* the assets of the catalog (video.uuid) and the numeric id of each (video.id)
Catalog == {"v1", "v2"}
VideoId(a) == IF a = "v1" THEN "1" ELSE "2"
StorageKeys == Catalog \cup { VideoId(a) : a \in Catalog }
Users == {"u1", "u2"}

HISTORY_LIMIT == 50
SESSION_CAP == 100
USAGE_CAP == 1000

NoSessions == [k \in StorageKeys |-> <<>>]
NoChat == sessions = NoSessions /\ apiUsage = <<>> /\ providerCalls = <<>>

\* Array.prototype.slice(-n)
Last(rows, n) == IF Len(rows) > n THEN SubSeq(rows, Len(rows) - n + 1, Len(rows)) ELSE rows

\* created_at DEFAULT now() / new Date().toISOString(): later than every stored row
NextStamp(rows) == IF rows = <<>> THEN 1 ELSE rows[Len(rows)].createdAt + 1

ChatRow(userId, message, response, createdAt) ==
  [userId |-> userId, message |-> message, response |-> response, createdAt |-> createdAt]

\* INSERT INTO plugin_ai_chat_sessions (video_id, user_id, message, response)
saveChatMessageNative(store, videoId, userId, message, response) ==
  [store EXCEPT ![videoId] = Append(@, ChatRow(userId, message, response, NextStamp(@)))]

\* sessions[videoUuid].sessions.push(...), then the last 100 are kept
saveChatMessageFallback(store, videoUuid, userId, message, response) ==
  [store EXCEPT ![videoUuid] =
     Last(Append(@, ChatRow(userId, message, response, NextStamp(@))), SESSION_CAP)]

saveChatMessage(store, videoId, videoUuid, userId, message, response) ==
  IF ~isConnected THEN saveChatMessageFallback(store, videoUuid, userId, message, response)
  ELSE saveChatMessageNative(store, videoId, userId, message, response)

\* ORDER BY created_at DESC, of rows kept in creation order
OrderByCreatedAtDesc(rows) == [i \in DOMAIN rows |-> rows[Len(rows) + 1 - i]]

\* SELECT message, response, created_at ... WHERE video_id = $1 [AND user_id = $2]
\* ORDER BY created_at DESC LIMIT 50
getChatHistoryNative(store, videoId, userId) ==
  LET mine(row) == userId = NULL \/ row.userId = userId
      rows == OrderByCreatedAtDesc(SelectSeq(store[videoId], mine))
  IN  [i \in 1..(IF Len(rows) > HISTORY_LIMIT THEN HISTORY_LIMIT ELSE Len(rows)) |->
         [message |-> rows[i].message, response |-> rows[i].response,
          created_at |-> rows[i].createdAt]]

\* sessions[videoId]?.sessions || [], filtered by user when one is given
getChatHistoryFallback(store, videoId, userId) ==
  LET mine(row) == row.userId = userId
  IN  IF userId # NULL THEN SelectSeq(store[videoId], mine) ELSE store[videoId]

getChatHistory(store, videoId, userId) ==
  IF ~isConnected THEN getChatHistoryFallback(store, videoId, userId)
  ELSE getChatHistoryNative(store, videoId, userId)

UsageRow(userId, endpoint, tokensUsed) ==
  [userId |-> userId, endpoint |-> endpoint, tokensUsed |-> tokensUsed, cost |-> 0]

trackAPIUsageNative(usage, userId, endpoint, tokensUsed) ==
  Append(usage, UsageRow(userId, endpoint, tokensUsed))

trackAPIUsageFallback(usage, userId, endpoint, tokensUsed) ==
  Last(Append(usage, UsageRow(userId, endpoint, tokensUsed)), USAGE_CAP)

trackAPIUsage(usage, userId, endpoint, tokensUsed) ==
  IF ~isConnected THEN trackAPIUsageFallback(usage, userId, endpoint, tokensUsed)
  ELSE trackAPIUsageNative(usage, userId, endpoint, tokensUsed)

\* the stores of the database service, as one record
Stores(chunkStore, frameStore, q, chatStore) ==
  [embeddings |-> chunkStore, snapshots |-> frameStore, queue |-> q, sessions |-> chatStore]

\* delete store[videoUuid] / DELETE ... WHERE video_uuid = $1
Delete(store, videoUuid) ==
  [k \in DOMAIN store |-> IF k = videoUuid THEN <<>> ELSE store[k]]

\* queue.filter(item => item.videoUuid !== videoUuid)
QueueWithout(q, videoUuid) ==
  LET other(row) == row.videoUuid # videoUuid IN SelectSeq(q, other)

\* cleanupVideoData that leaves the row of the processing queue
cleanupVideoDataKeepingRecord(db, videoUuid) ==
  [db EXCEPT !.embeddings = Delete(@, videoUuid),
             !.snapshots = Delete(@, videoUuid)]

\* three DELETE statements: embeddings, snapshots, processing queue
cleanupVideoDataNative(db, videoUuid) ==
  [db EXCEPT !.embeddings = Delete(@, videoUuid),
             !.snapshots = Delete(@, videoUuid),
             !.queue = QueueWithout(@, videoUuid)]

cleanupVideoDataFallback(db, videoUuid) ==
  [db EXCEPT !.embeddings = Delete(@, videoUuid),
             !.snapshots = Delete(@, videoUuid),
             !.sessions = Delete(@, videoUuid),
             !.queue = QueueWithout(@, videoUuid)]

cleanupVideoData(db, videoUuid) ==
  IF ~isConnected THEN cleanupVideoDataFallback(db, videoUuid)
  ELSE cleanupVideoDataNative(db, videoUuid)

----------------------------------------------------------------------------
(* Calls of single functions *)

NoCall == [op |-> "none", args |-> <<>>]
NoResult == [returned |-> FALSE, value |-> <<>>]
Call(op, args) == [op |-> op, args |-> args]
Returned(value) == [returned |-> TRUE, value |-> value]

----------------------------------------------------------------------------
(* Initial state: the plugin is registered, nothing is stored *)

Init ==
  /\ isConnected \in BOOLEAN
  /\ openaiInitialized \in BOOLEAN
  /\ videoState = [a \in Assets |-> TO_TRANSCODE]
  /\ captionAvailable = [a \in Assets |-> FALSE]
  /\ queue = <<>>
  /\ embeddings = [a \in Assets |-> <<>>]
  /\ snapshots = [a \in Assets |-> <<>>]
  /\ qTimers = EmptyBag
  /\ tTimers = EmptyBag
  /\ runs = EmptyBag
  /\ nEvents = 0
  /\ call = NoCall
  /\ result = NoResult
  /\ NoChat

----------------------------------------------------------------------------
(* Environment *)

\* the catalog moves the asset to another state (transcoding ends, or the
\* asset goes back to a non-published state)
VideoStateChanges(a) ==
  /\ \E state \in {READY_STATE, TO_TRANSCODE} \ {videoState[a]} :
       videoState' = [videoState EXCEPT ![a] = state]
  /\ UNCHANGED << isConnected, openaiInitialized, captionAvailable, queue, embeddings,
                  snapshots, qTimers, tTimers, runs, nEvents, call, result,
                  sessions, apiUsage, providerCalls >>

\* caption generation finishes
CaptionBecomesAvailable(a) ==
  /\ ~captionAvailable[a]
  /\ captionAvailable' = [captionAvailable EXCEPT ![a] = TRUE]
  /\ UNCHANGED << isConnected, openaiInitialized, videoState, queue, embeddings,
                  snapshots, qTimers, tTimers, runs, nEvents, call, result,
                  sessions, apiUsage, providerCalls >>

----------------------------------------------------------------------------
(* Hooks and routes (main.js) *)

\* action:api.video.uploaded
VideoUploaded(a) ==
  /\ nEvents < MaxEvents
  /\ nEvents' = nEvents + 1
  /\ \E autoProcess \in BOOLEAN :
       IF autoProcess
       THEN queueVideoForProcessing(a, 0, qTimers)
       ELSE UNCHANGED << queue, qTimers, runs >>
  /\ UNCHANGED << isConnected, openaiInitialized, videoState, captionAvailable,
                  embeddings, snapshots, tTimers, call, result,
                  sessions, apiUsage, providerCalls >>

\* POST /processing/trigger/:videoUuid by an administrator
ManualTrigger(a) ==
  /\ nEvents < MaxEvents
  /\ nEvents' = nEvents + 1
  /\ queueVideoForProcessing(a, 0, qTimers)
  /\ UNCHANGED << isConnected, openaiInitialized, videoState, captionAvailable,
                  embeddings, snapshots, tTimers, call, result,
                  sessions, apiUsage, providerCalls >>

\* action:api.video.updated
VideoUpdated(a) ==
  /\ nEvents < MaxEvents
  /\ nEvents' = nEvents + 1
  /\ IF /\ getProcessingStatus(queue, a) \in {"error", "pending"}
        /\ isVideoReady(videoState[a])
     THEN /\ queueVideoForProcessing(a, 0, qTimers)
          /\ UNCHANGED << embeddings, tTimers >>
     ELSE /\ \E f \in Faults(a) : TranscriptCall(a, 0, tTimers, f)
          /\ UNCHANGED << queue, qTimers, runs >>
  /\ UNCHANGED << isConnected, openaiInitialized, videoState, captionAvailable,
                  snapshots, call, result,
                  sessions, apiUsage, providerCalls >>

\* action:api.video-caption.created
CaptionCreated(a) ==
  /\ nEvents < MaxEvents
  /\ nEvents' = nEvents + 1
  /\ \E f \in Faults(a) : TranscriptCall(a, 0, tTimers, f)
  /\ UNCHANGED << isConnected, openaiInitialized, videoState, captionAvailable, queue,
                  snapshots, qTimers, runs, call, result,
                  sessions, apiUsage, providerCalls >>

----------------------------------------------------------------------------
(* Timers *)

\* setTimeout(() => queueVideoForProcessing(video, retryCount + 1), delay) fires
QueueRetryFires(t) ==
  /\ BagIn(t, qTimers)
  /\ queueVideoForProcessing(t.asset, t.retryCount, qTimers (-) SetToBag({t}))
  /\ UNCHANGED << isConnected, openaiInitialized, videoState, captionAvailable,
                  embeddings, snapshots, tTimers, nEvents, call, result,
                  sessions, apiUsage, providerCalls >>

\* setTimeout(() => checkAndProcessTranscript(video, retryCount + 1), ...) fires
TranscriptRetryFires(t) ==
  /\ BagIn(t, tTimers)
  /\ \E f \in Faults(t.asset) : TranscriptCall(t.asset, t.retryCount, tTimers (-) SetToBag({t}), f)
  /\ UNCHANGED << isConnected, openaiInitialized, videoState, captionAvailable, queue,
                  snapshots, qTimers, runs, nEvents, call, result,
                  sessions, apiUsage, providerCalls >>

----------------------------------------------------------------------------
(* processVideo, one awaited stage per step; r is a run in flight *)

AtStage(r, pc) == BagIn(r, runs) /\ r.pc = pc

\* await databaseService.updateProcessingStatus(video.uuid, 'processing')
SetProcessing(r) ==
  /\ AtStage(r, "start")
  /\ queue' = updateProcessingStatus(queue, r.asset, "processing", NULL)
  /\ runs' = Replace(runs, r, [r EXCEPT !.pc = "snapshots"])
  /\ UNCHANGED << isConnected, openaiInitialized, videoState, captionAvailable,
                  embeddings, snapshots, qTimers, tTimers, nEvents, call, result,
                  sessions, apiUsage, providerCalls >>

\* await extractVideoSnapshots(video)
ExtractSnapshots(r) ==
  /\ AtStage(r, "snapshots")
  /\ \/ \* fs.mkdir (or the settings read) throws
        /\ runs' = Replace(runs, r, [r EXCEPT !.pc = "catch", !.error = MkdirMessage])
        /\ UNCHANGED snapshots
     \/ \* no file URL after MAX_FILE_RETRIES attempts: the stage is skipped
        /\ runs' = Replace(runs, r, [r EXCEPT !.pc = "transcript"])
        /\ UNCHANGED snapshots
     \/ \E configured \in IntervalSettings :
        \E extracted \in SUBSET TimestampSet(configured) :
        \E analyzed \in SUBSET extracted :
          /\ snapshots' = [snapshots EXCEPT ![r.asset] =
                             extractVideoSnapshots(@, configured, extracted, analyzed)]
          /\ runs' = Replace(runs, r, [r EXCEPT !.pc = "transcript"])
  /\ UNCHANGED << isConnected, openaiInitialized, videoState, captionAvailable, queue,
                  embeddings, qTimers, tTimers, nEvents, call, result,
                  sessions, apiUsage, providerCalls >>

\* await checkAndProcessTranscript(video)
ProcessTranscript(r) ==
  /\ AtStage(r, "transcript")
  /\ \E f \in Faults(r.asset) :
       LET out == checkAndProcessTranscript(r.asset, 0, f)
       IN  /\ TranscriptCall(r.asset, 0, tTimers, f)
           /\ runs' = Replace(runs, r,
                        [r EXCEPT !.pc = "finish", !.writeThrew = out.writeThrew])
  /\ UNCHANGED << isConnected, openaiInitialized, videoState, captionAvailable, queue,
                  snapshots, qTimers, nEvents, call, result,
                  sessions, apiUsage, providerCalls >>

\* await databaseService.updateProcessingStatus(video.uuid, 'completed'); return
SetCompleted(r) ==
  /\ AtStage(r, "finish")
  /\ queue' = updateProcessingStatus(queue, r.asset, "completed", NULL)
  /\ runs' = runs (-) SetToBag({r})
  /\ UNCHANGED << isConnected, openaiInitialized, videoState, captionAvailable,
                  embeddings, snapshots, qTimers, tTimers, nEvents, call, result,
                  sessions, apiUsage, providerCalls >>

\* mutant: the catch block also deletes what the run's asset has stored
CatchErrorRollingBack(r) ==
  /\ AtStage(r, "catch")
  /\ queue' = updateProcessingStatus(queue, r.asset, "error", r.error)
  /\ runs' = runs (-) SetToBag({r})
  /\ embeddings' = [embeddings EXCEPT ![r.asset] = <<>>]
  /\ snapshots' = [snapshots EXCEPT ![r.asset] = <<>>]
  /\ UNCHANGED << isConnected, openaiInitialized, videoState, captionAvailable,
                  qTimers, tTimers, nEvents, call, result,
                  sessions, apiUsage, providerCalls >>

\* catch (error): updateProcessingStatus(video.uuid, 'error', error.message); throw
CatchError(r) ==
  /\ AtStage(r, "catch")
  /\ queue' = updateProcessingStatus(queue, r.asset, "error", r.error)
  /\ runs' = runs (-) SetToBag({r})
  /\ UNCHANGED << isConnected, openaiInitialized, videoState, captionAvailable,
                  embeddings, snapshots, qTimers, tTimers, nEvents, call, result,
                  sessions, apiUsage, providerCalls >>

----------------------------------------------------------------------------
(* Specification *)

Next ==
  \/ \E a \in Assets : VideoStateChanges(a)
  \/ \E a \in Assets : CaptionBecomesAvailable(a)
  \/ \E a \in Assets : VideoUploaded(a)
  \/ \E a \in Assets : ManualTrigger(a)
  \/ \E a \in Assets : VideoUpdated(a)
  \/ \E a \in Assets : CaptionCreated(a)
  \/ \E t \in BagToSet(qTimers) : QueueRetryFires(t)
  \/ \E t \in BagToSet(tTimers) : TranscriptRetryFires(t)
  \/ \E r \in BagToSet(runs) : SetProcessing(r)
  \/ \E r \in BagToSet(runs) : ExtractSnapshots(r)
  \/ \E r \in BagToSet(runs) : ProcessTranscript(r)
  \/ \E r \in BagToSet(runs) : SetCompleted(r)
  \/ \E r \in BagToSet(runs) : CatchError(r)

Spec == Init /\ [][Next]_vars

\* the asset has had its caption file from the start, and the file stays as it is
InitCaptioned ==
  /\ isConnected \in BOOLEAN
  /\ openaiInitialized \in BOOLEAN
  /\ videoState = [a \in Assets |-> READY_STATE]
  /\ captionAvailable = [a \in Assets |-> TRUE]
  /\ queue = <<>>
  /\ embeddings = [a \in Assets |-> <<>>]
  /\ snapshots = [a \in Assets |-> <<>>]
  /\ qTimers = EmptyBag
  /\ tTimers = EmptyBag
  /\ runs = EmptyBag
  /\ nEvents = 0
  /\ call = NoCall
  /\ result = NoResult
  /\ NoChat

NextCaptioned ==
  \/ \E a \in Assets : VideoStateChanges(a)
  \/ \E a \in Assets : VideoUploaded(a)
  \/ \E a \in Assets : ManualTrigger(a)
  \/ \E a \in Assets : VideoUpdated(a)
  \/ \E a \in Assets : CaptionCreated(a)
  \/ \E t \in BagToSet(qTimers) : QueueRetryFires(t)
  \/ \E t \in BagToSet(tTimers) : TranscriptRetryFires(t)
  \/ \E r \in BagToSet(runs) : SetProcessing(r)
  \/ \E r \in BagToSet(runs) : ExtractSnapshots(r)
  \/ \E r \in BagToSet(runs) : ProcessTranscript(r)
  \/ \E r \in BagToSet(runs) : SetCompleted(r)
  \/ \E r \in BagToSet(runs) : CatchError(r)

SpecCaptioned == InitCaptioned /\ [][NextCaptioned]_vars

----------------------------------------------------------------------------
(* Similarity search (chat-service.js cosineSimilarity, findSimilarChunks,  *)
(* findSimilarChunksFallback)                                               *)

\* largest dimension of a vector handed to cosineSimilarity
MaxDim == 2
\* largest number of chunks an asset holds when it is searched
MaxChunks == 3

RECURSIVE SumProducts(_, _, _)
SumProducts(vecA, vecB, i) ==
  IF i > Len(vecA) THEN 0 ELSE vecA[i] * vecB[i] + SumProducts(vecA, vecB, i + 1)

\* a similarity is the number num / sqrt(den2); den2 = 0 is 0 / 0, NaN
Similarity(num, den2) == [num |-> num, den2 |-> den2]
Zero == Similarity(0, 1)
IsNaN(x) == x.den2 = 0
IsZero(x) == x.num = 0 /\ x.den2 # 0

\* mutant: the norms are not tested before the division
cosineSimilarityUnguarded(vecA, vecB) ==
  IF vecA = NoEmbedding \/ vecB = NoEmbedding \/ Len(vecA) # Len(vecB) THEN Zero
  ELSE Similarity(SumProducts(vecA, vecB, 1),
                  SumProducts(vecA, vecA, 1) * SumProducts(vecB, vecB, 1))

\* a missing vector (null, undefined) is NoEmbedding
cosineSimilarity(vecA, vecB) ==
  IF vecA = NoEmbedding \/ vecB = NoEmbedding \/ Len(vecA) # Len(vecB) THEN Zero
  ELSE LET dotProduct == SumProducts(vecA, vecB, 1)
           normA == SumProducts(vecA, vecA, 1)
           normB == SumProducts(vecB, vecB, 1)
       IN  IF normA = 0 \/ normB = 0 THEN Zero
           ELSE Similarity(dotProduct, normA * normB)

SignedSquare(n) == IF n < 0 THEN 0 - n * n ELSE n * n

\* x < y for two similarities that are numbers
SimilarityLess(x, y) == SignedSquare(x.num) * y.den2 < SignedSquare(y.num) * x.den2

\* similarities.sort((a, b) => b.similarity - a.similarity): the sort is
\* stable, an element goes after the elements that are not smaller
RECURSIVE InsertBySimilarity(_, _)
InsertBySimilarity(s, x) ==
  IF s = <<>> THEN <<x>>
  ELSE IF SimilarityLess(s[1].similarity, x.similarity) THEN <<x>> \o s
  ELSE <<s[1]>> \o InsertBySimilarity(Tail(s), x)

RECURSIVE SortBySimilarity(_)
SortBySimilarity(s) ==
  IF s = <<>> THEN <<>>
  ELSE InsertBySimilarity(SortBySimilarity(SubSeq(s, 1, Len(s) - 1)), s[Len(s)])

Slice(s, limit) == SubSeq(s, 1, IF limit < Len(s) THEN limit ELSE Len(s))

findSimilarChunksFallback(rows, queryEmbedding, limit) ==
  LET chunks == getVideoEmbeddingsFallback(rows)
      similarities ==
        [i \in DOMAIN chunks |->
           [chunkIndex |-> chunks[i].chunkIndex, startTime |-> chunks[i].startTime,
            endTime |-> chunks[i].endTime, content |-> chunks[i].content,
            embedding |-> chunks[i].embedding,
            similarity |-> cosineSimilarity(queryEmbedding, chunks[i].embedding)]]
  IN  IF chunks = <<>> THEN <<>> ELSE Slice(SortBySimilarity(similarities), limit)

\* embedding <-> $2::vector, the Euclidean distance, kept as its square
Distance(vecA, vecB) ==
  SumProducts(vecA, vecA, 1) - 2 * SumProducts(vecA, vecB, 1) + SumProducts(vecB, vecB, 1)

\* the orders in which the positions of `set` can be listed
RECURSIVE Orders(_)
Orders(set) ==
  IF set = {} THEN { <<>> }
  ELSE UNION { { <<i>> \o o : o \in Orders(set \ {i}) } : i \in set }

\* SELECT ... WHERE embedding IS NOT NULL ORDER BY distance LIMIT $3: rows of
\* equal distance come in an order the database chooses
findSimilarChunksNative(rows, queryEmbedding, limit) ==
  LET candidates == { i \in DOMAIN rows : rows[i].embedding # NoEmbedding }
      row(i) == [content |-> rows[i].content, startTime |-> rows[i].startTime,
                 endTime |-> rows[i].endTime,
                 distance |-> Distance(rows[i].embedding, queryEmbedding)]
      ordered == { o \in Orders(candidates) :
                     \A j \in 1..(Len(o) - 1) : row(o[j]).distance <= row(o[j + 1]).distance }
  IN  { Slice([j \in DOMAIN o |-> row(o[j])], limit) : o \in ordered }

\* the values findSimilarChunks(videoUuid, queryEmbedding, limit) can return
findSimilarChunks(rows, queryEmbedding, limit) ==
  IF ~isConnected THEN { findSimilarChunksFallback(rows, queryEmbedding, limit) }
  ELSE findSimilarChunksNative(rows, queryEmbedding, limit)

\* the orchestrator at rest: nothing queued, no timer, no run
AtRest ==
  /\ openaiInitialized = TRUE
  /\ videoState = [a \in Assets |-> READY_STATE]
  /\ captionAvailable = [a \in Assets |-> FALSE]
  /\ queue = <<>>
  /\ qTimers = EmptyBag
  /\ tTimers = EmptyBag
  /\ runs = EmptyBag
  /\ nEvents = 0

VectorsOfDim(n) == [1..n -> -1..1]
Vectors == UNION { VectorsOfDim(n) : n \in 1..MaxDim } \cup { NoEmbedding }
AllZero(vec) == vec # NoEmbedding /\ \A i \in DOMAIN vec : vec[i] = 0

\* vectors as the embedding service returns them: of one dimension, of length 1
UnitVectors == { v \in VectorsOfDim(MaxDim) : SumProducts(v, v, 1) = 1 }

InitVector ==
  /\ AtRest
  /\ isConnected = FALSE
  /\ embeddings = [a \in Assets |-> <<>>]
  /\ snapshots = [a \in Assets |-> <<>>]
  /\ call \in { Call("cosineSimilarity", [vecA |-> vecA, vecB |-> vecB]) :
                  vecA \in Vectors, vecB \in Vectors }
  /\ result = NoResult
  /\ NoChat

CosineSimilarityReturns ==
  /\ call.op = "cosineSimilarity"
  /\ ~result.returned
  /\ result' = Returned(cosineSimilarity(call.args.vecA, call.args.vecB))
  /\ UNCHANGED << isConnected, openaiInitialized, videoState, captionAvailable, queue,
                  embeddings, snapshots, qTimers, tTimers, runs, nEvents, call,
                  sessions, apiUsage, providerCalls >>

NextVector == CosineSimilarityReturns

SpecVector == InitVector /\ [][NextVector]_vars

\* the chunk of index i as the segmenter stores it
SearchTexts == << "first", "second", "third", "fourth" >>
SearchChunk(i, embedding) ==
  [startTime |-> chunkDuration * i, endTime |-> chunkDuration * (i + 1),
   content |-> << SearchTexts[i + 1] >>, embedding |-> embedding]

\* the rows left by processVideoTranscript (every chunk, without embedding) and
\* then generateVideoEmbeddings (the chunks whose request succeeded)
RECURSIVE SaveChunksFrom(_, _, _, _)
SaveChunksFrom(rows, embs, i, embedded) ==
  IF i > Len(embs) THEN rows
  ELSE IF embedded /\ embs[i] = NoEmbedding
  THEN SaveChunksFrom(rows, embs, i + 1, embedded)
  ELSE SaveChunksFrom(
         saveVideoEmbedding(rows, i - 1,
                            SearchChunk(i - 1, IF embedded THEN embs[i] ELSE NoEmbedding)),
         embs, i + 1, embedded)

StoredChunks(embs) == SaveChunksFrom(SaveChunksFrom(<<>>, embs, 1, FALSE), embs, 1, TRUE)

EmbeddingValues == UnitVectors \cup { NoEmbedding }
Limits == {1, 2, 5}

InitSearch ==
  /\ AtRest
  /\ isConnected \in BOOLEAN
  /\ \E n \in 0..MaxChunks : \E embs \in [1..n -> EmbeddingValues] :
       embeddings = [a \in Assets |-> StoredChunks(embs)]
  /\ snapshots = [a \in Assets |-> <<>>]
  /\ call \in { Call("findSimilarChunks",
                     [videoUuid |-> a, queryEmbedding |-> q, limit |-> k]) :
                  a \in Assets, q \in UnitVectors, k \in Limits }
  /\ result = NoResult
  /\ NoChat

FindSimilarChunksReturns ==
  /\ call.op = "findSimilarChunks"
  /\ ~result.returned
  /\ \E found \in findSimilarChunks(embeddings[call.args.videoUuid],
                                    call.args.queryEmbedding, call.args.limit) :
       result' = Returned(found)
  /\ UNCHANGED << isConnected, openaiInitialized, videoState, captionAvailable, queue,
                  embeddings, snapshots, qTimers, tTimers, runs, nEvents, call,
                  sessions, apiUsage, providerCalls >>

NextSearch == FindSimilarChunksReturns

SpecSearch == InitSearch /\ [][NextSearch]_vars

----------------------------------------------------------------------------
(* Caption segmenter and prompt labels, one call at a time                  *)

\* largest number of cues in a caption file handed to parseTranscript
MaxCues == 7

\* start of the first cue, and time from one cue to the next, in seconds
FirstCueTimes == {0, 30}
CueGaps == {15, 30}

\* "MM:SS.mmm" split at ':'
TimestampParts(seconds) == << seconds \div 60, seconds % 60 >>

\* the lines of cue number k that starts at `seconds`: the cue line, its text
\* lines, a blank line
CueLines(k, seconds, textLines) ==
  << CueLine(TimestampParts(seconds)) >>
    \o [l \in 1..textLines |-> TextLine(<< k, l >>)]
    \o << BlankLine >>

RECURSIVE TranscriptFrom(_, _, _, _)
TranscriptFrom(k, seconds, gaps, textLines) ==
  CueLines(k, seconds, textLines)
    \o (IF gaps = <<>> THEN <<>>
        ELSE TranscriptFrom(k + 1, seconds + gaps[1], Tail(gaps), textLines))

\* a WebVTT file: header, then cues
Transcript(first, gaps, textLines) ==
  << HeaderLine, BlankLine >> \o TranscriptFrom(1, first, gaps, textLines)

Transcripts ==
  { Transcript(first, gaps, textLines) :
      first \in FirstCueTimes,
      gaps \in UNION { [1..n -> CueGaps] : n \in 0..(MaxCues - 1) },
      textLines \in 1..2 }

\* formatTime(seconds): "m:ss" as <<m, ss>>, "h:mm:ss" as <<h, mm, ss>>
formatTime(seconds) ==
  LET hours == seconds \div 3600
      minutes == (seconds % 3600) \div 60
      secs == seconds % 60
  IN  IF hours > 0 THEN << hours, minutes, secs >> ELSE << minutes, secs >>

\* formatTime(undefined) is '0:00'
FormatMissing == << 0, 0 >>

\* `[${formatTime(chunk.startTime || chunk.start_time)} - ${formatTime(...)}]`:
\* a time of 0 is falsy, the other property is not there
ChunkLabel(chunk) ==
  << IF chunk.startTime # 0 THEN formatTime(chunk.startTime) ELSE FormatMissing,
     IF chunk.endTime # 0 THEN formatTime(chunk.endTime) ELSE FormatMissing >>

InitSegmenter ==
  /\ AtRest
  /\ isConnected = FALSE
  /\ embeddings = [a \in Assets |-> <<>>]
  /\ snapshots = [a \in Assets |-> <<>>]
  /\ call \in { Call("parseTranscript", [transcriptText |-> t]) : t \in Transcripts }
  /\ result = NoResult
  /\ NoChat

ParseTranscriptReturns ==
  /\ call.op = "parseTranscript"
  /\ ~result.returned
  /\ result' = Returned(parseTranscript(call.args.transcriptText))
  /\ UNCHANGED << isConnected, openaiInitialized, videoState, captionAvailable, queue,
                  embeddings, snapshots, qTimers, tTimers, runs, nEvents, call,
                  sessions, apiUsage, providerCalls >>

NextSegmenter == ParseTranscriptReturns

SpecSegmenter == InitSegmenter /\ [][NextSegmenter]_vars

----------------------------------------------------------------------------
(* Frame store, one call at a time (saveVideoSnapshot, getVideoSnapshots)   *)

\* SELECT timestamp, file_path, description ... [AND timestamp >= $2 AND
\* timestamp <= $3] ORDER BY timestamp; ranged: minTime and maxTime are both
\* not null
getVideoSnapshotsNative(rows, ranged, minTime, maxTime) ==
  LET inRange(row) == ~ranged \/ (row.timestamp >= minTime /\ row.timestamp <= maxTime)
      sorted == SortByTimestamp(SelectSeq(rows, inRange))
  IN  [i \in DOMAIN sorted |->
         [timestamp |-> sorted[i].timestamp, file_path |-> sorted[i].filePath,
          description |-> sorted[i].description]]

\* snapshots[videoUuid]?.snapshots || []
getVideoSnapshotsFallback(rows) == rows

getVideoSnapshots(rows, ranged, minTime, maxTime) ==
  IF ~isConnected THEN getVideoSnapshotsFallback(rows)
  ELSE getVideoSnapshotsNative(rows, ranged, minTime, maxTime)

\* timestamps of the frames of an asset
FrameTimestamps == {0, 5, 10}

\* the rows left by extractVideoSnapshots runs that saved the timestamps of
\* `order` in that order, and by analyzeSnapshots for those in `analyzed`
StoredFrames(order, analyzed) ==
  SaveSnapshotsFrom(
    SaveSnapshotsFrom(<<>>, order, 1, { order[i] : i \in DOMAIN order }, NULL),
    order, 1, analyzed, FrameDescription)

FrameCalls ==
  { Call("saveVideoSnapshot",
         [videoUuid |-> a, timestamp |-> t, filePath |-> SnapshotPath(t),
          description |-> d]) :
      a \in Assets, t \in FrameTimestamps, d \in {NULL, FrameDescription} }
  \cup
  { Call("getVideoSnapshots",
         [videoUuid |-> a, ranged |-> ranged, minTime |-> range[1], maxTime |-> range[2]]) :
      a \in Assets, ranged \in BOOLEAN,
      range \in { r \in FrameTimestamps \X FrameTimestamps : r[1] <= r[2] } }

InitFrames ==
  /\ AtRest
  /\ isConnected \in BOOLEAN
  /\ embeddings = [a \in Assets |-> <<>>]
  /\ \E saved \in SUBSET FrameTimestamps : \E order \in Orders(saved) :
     \E analyzed \in SUBSET saved :
       snapshots = [a \in Assets |-> StoredFrames(order, analyzed)]
  /\ call \in FrameCalls
  /\ result = NoResult
  /\ NoChat

SaveVideoSnapshotReturns ==
  /\ call.op = "saveVideoSnapshot"
  /\ ~result.returned
  /\ snapshots' = [snapshots EXCEPT ![call.args.videoUuid] =
                     saveVideoSnapshot(@, call.args.timestamp, call.args.filePath,
                                       call.args.description)]
  /\ result' = Returned(<<>>)
  /\ UNCHANGED << isConnected, openaiInitialized, videoState, captionAvailable, queue,
                  embeddings, qTimers, tTimers, runs, nEvents, call,
                  sessions, apiUsage, providerCalls >>

GetVideoSnapshotsReturns ==
  /\ call.op = "getVideoSnapshots"
  /\ ~result.returned
  /\ result' = Returned(getVideoSnapshots(snapshots[call.args.videoUuid], call.args.ranged,
                                          call.args.minTime, call.args.maxTime))
  /\ UNCHANGED << isConnected, openaiInitialized, videoState, captionAvailable, queue,
                  embeddings, snapshots, qTimers, tTimers, runs, nEvents, call,
                  sessions, apiUsage, providerCalls >>

NextFrames == SaveVideoSnapshotReturns \/ GetVideoSnapshotsReturns

SpecFrames == InitFrames /\ [][NextFrames]_vars

----------------------------------------------------------------------------
(* extractTimestamps (chat service) *)

MaxTokens == 2

\* a text is a sequence of tokens; a token is a bracketed or bare list of digit
\* groups joined by ':' ("[1:05]" is Token(TRUE, << <<1>>, <<0, 5>> >>)), or
\* plain words (no group)
Token(bracketed, groups) == [bracketed |-> bracketed, groups |-> groups]

FirstGroups == { << 1 >>, << 1, 2 >>, << 1, 2, 3 >> }
OtherGroups == { << 0, 5 >>, << 3, 0 >>, << 0, 0 >> }
GroupLists ==
  { << f >> : f \in FirstGroups }
  \cup { << f, o >> : f \in FirstGroups, o \in OtherGroups }
  \cup { << f, o, p >> : f \in FirstGroups, o \in OtherGroups, p \in OtherGroups }

Words == Token(FALSE, << >>)
Tokens ==
  { Token(TRUE, g) : g \in GroupLists } \cup { Token(FALSE, << << 1 >>, << 0, 5 >> >>), Words }
Texts == UNION { [1..n -> Tokens] : n \in 0..MaxTokens }

\* /\[(\d{1,2}:\d{2}(?::\d{2})?)\]/
RegexMatches(token) ==
  /\ token.bracketed
  /\ Len(token.groups) \in {2, 3}
  /\ Len(token.groups[1]) \in {1, 2}
  /\ \A i \in 2..Len(token.groups) : Len(token.groups[i]) = 2

\* parseInt of a string of decimal digits
RECURSIVE parseInt(_)
parseInt(digits) ==
  IF digits = << >> THEN 0
  ELSE 10 * parseInt(SubSeq(digits, 1, Len(digits) - 1)) + digits[Len(digits)]

SecondsOfLastTwo(parts) ==
  parseInt(parts[Len(parts) - 1]) * 60 + parseInt(parts[Len(parts)])

Seconds(parts) ==
  IF Len(parts) = 3
  THEN parseInt(parts[1]) * 3600 + parseInt(parts[2]) * 60 + parseInt(parts[3])
  ELSE IF Len(parts) = 2 THEN parseInt(parts[1]) * 60 + parseInt(parts[2])
  ELSE 0

\* the while loop over regex.exec(text), from token i on
RECURSIVE ExtractFrom(_, _, _)
ExtractFrom(text, i, timestamps) ==
  IF i > Len(text) THEN timestamps
  ELSE IF RegexMatches(text[i])
  THEN ExtractFrom(text, i + 1,
                   Append(timestamps,
                          [display |-> text[i], seconds |-> Seconds(text[i].groups)]))
  ELSE ExtractFrom(text, i + 1, timestamps)

extractTimestamps(text) == ExtractFrom(text, 1, << >>)

InitTimestamps ==
  /\ AtRest
  /\ isConnected = FALSE
  /\ embeddings = [a \in Assets |-> <<>>]
  /\ snapshots = [a \in Assets |-> <<>>]
  /\ call \in { Call("extractTimestamps", [text |-> t]) : t \in Texts }
  /\ result = NoResult
  /\ NoChat

ExtractTimestampsReturns ==
  /\ call.op = "extractTimestamps"
  /\ ~result.returned
  /\ result' = Returned(extractTimestamps(call.args.text))
  /\ UNCHANGED << isConnected, openaiInitialized, videoState, captionAvailable, queue,
                  embeddings, snapshots, qTimers, tTimers, runs, nEvents, call,
                  sessions, apiUsage, providerCalls >>

NextTimestamps == ExtractTimestampsReturns

SpecTimestamps == InitTimestamps /\ [][NextTimestamps]_vars

----------------------------------------------------------------------------
(* Chat service (handleChatMessage, getVideoContext, generateChatResponse) *)
(* and the routes POST /chat/send, GET /chat/history/:videoId              *)

MaxExchanges == 51
MaxFrames == 11

RECENT_HISTORY == 20
CONTEXT_CHUNKS == 5

\* the message of the viewer and the completion of the provider
\* ("... [1:05]", usage.total_tokens)
Question == << "question" >>
AnswerText == << Words, Token(TRUE, << << 1 >>, << 0, 5 >> >>) >>
TotalTokens == 42

ChatFailure == [status |-> 500, error |-> "Failed to process chat message"]
ChatSuccess(response) == [status |-> 200, body |-> response]

\* what can go wrong outside the plugin during one handleChatMessage: the
\* embedding request, the chunk search, the read of the history, the completion
ChatFaults == { "none", "embedding", "search", "history", "provider" }

\* what loadByIdOrUUID gives for the asset and what getRelatedVideos finds
VideoMetadata(videoUuid) == [title |-> videoUuid, duration |-> VideoDuration]
\* videoMetadata = null
NoMetadata == [title |-> NULL, duration |-> 0]
RelatedVideos(videoUuid) == << [uuid |-> "another video", name |-> "another video"] >>

Context(chunks, frames) ==
  [threw |-> FALSE, present |-> TRUE, transcriptChunks |-> chunks, snapshots |-> frames,
   metadata |-> NoMetadata, relatedVideos |-> << >>]
NoContext ==
  [threw |-> FALSE, present |-> FALSE, transcriptChunks |-> << >>, snapshots |-> << >>,
   metadata |-> NoMetadata, relatedVideos |-> << >>]
ContextError ==
  [threw |-> TRUE, present |-> FALSE, transcriptChunks |-> << >>, snapshots |-> << >>,
   metadata |-> NoMetadata, relatedVideos |-> << >>]

\* if (context) context.metadata = videoMetadata;
\* if (context) context.relatedVideos = relatedVideos
WithMetadata(context, videoUuid) ==
  IF context.present
  THEN [context EXCEPT !.metadata = VideoMetadata(videoUuid),
                       !.relatedVideos = RelatedVideos(videoUuid)]
  ELSE context

\* Math.min(...similarChunks.map(c => c.startTime || c.start_time || 0))
MinStartTime(chunks) ==
  CHOOSE t \in { chunks[i].startTime : i \in DOMAIN chunks } :
    \A i \in DOMAIN chunks : t <= chunks[i].startTime

\* Math.max(...similarChunks.map(c => c.endTime || c.end_time || 0))
MaxEndTime(chunks) ==
  CHOOSE t \in { chunks[i].endTime : i \in DOMAIN chunks } :
    \A i \in DOMAIN chunks : t >= chunks[i].endTime

\* the try block of getVideoContext: the contexts it can build
ContextsFound(chunkRows, frameRows, query) ==
  { Context(similarChunks,
            IF Len(similarChunks) > 0
            THEN getVideoSnapshots(frameRows, TRUE, MinStartTime(similarChunks),
                                   MaxEndTime(similarChunks))
            ELSE << >>) :
      similarChunks \in findSimilarChunks(chunkRows, generateEmbedding(query),
                                          CONTEXT_CHUNKS) }

\* getVideoContext with its catch block removed
getVideoContextUncaught(chunkRows, frameRows, query, fault) ==
  IF ~openaiInitialized THEN { NoContext }
  ELSE IF fault = "embedding" THEN { ContextError }
  ELSE IF fault = "search"
  THEN (IF isConnected THEN { Context(<< >>, << >>) } ELSE { ContextError })
  ELSE ContextsFound(chunkRows, frameRows, query)

\* a failed embedding request, or a failed read of the fallback store, is
\* caught: null; the native search catches its own failure and returns []
getVideoContext(chunkRows, frameRows, query, fault) ==
  IF ~openaiInitialized THEN { NoContext }
  ELSE IF fault = "embedding" THEN { NoContext }
  ELSE IF fault = "search"
  THEN (IF isConnected THEN { Context(<< >>, << >>) } ELSE { NoContext })
  ELSE ContextsFound(chunkRows, frameRows, query)

\* Array.prototype.reverse
Reverse(s) == [i \in DOMAIN s |-> s[Len(s) + 1 - i]]

\* history.slice(-20).reverse()
RecentHistory(history) == Reverse(Last(history, RECENT_HISTORY))

\* the lines of 'Video visual descriptions:', one for each snapshot of the context
SnapshotLines(context) ==
  [i \in DOMAIN context.snapshots |->
     [time |-> formatTime(context.snapshots[i].timestamp),
      description |-> IF context.snapshots[i].description = NULL
                      THEN "Visual at this timestamp"
                      ELSE context.snapshots[i].description]]

\* the request of openaiService.generateChatResponse and how it ended
ChatRequest(message, context, history, failed) ==
  [message |-> message, metadata |-> context.metadata,
   chunks |-> context.transcriptChunks, snapshots |-> SnapshotLines(context),
   relatedVideos |-> context.relatedVideos, history |-> RecentHistory(history),
   failed |-> failed]

\* what one handleChatMessage leaves: requests sent, stores, and the response
\* or the error
Outcome(requests, store, usage, threw, response) ==
  [requests |-> requests, sessions |-> store, apiUsage |-> usage, threw |-> threw,
   response |-> response]

ChatResponse == [response |-> AnswerText, timestamps |-> extractTimestamps(AnswerText)]

\* generateChatResponse that saves the exchange and the usage before the completion
generateChatResponseSavingFirst(message, context, videoId, videoUuid, userId, history, fault, withUsage) ==
  Outcome(<< ChatRequest(message, context, history, fault = "provider") >>,
          saveChatMessage(sessions, videoId, videoUuid, userId, message, AnswerText),
          IF withUsage THEN trackAPIUsage(apiUsage, userId, "chat", TotalTokens)
          ELSE apiUsage,
          fault = "provider", ChatResponse)

generateChatResponse(message, context, videoId, videoUuid, userId, history, fault, withUsage) ==
  IF fault = "provider"
  THEN Outcome(<< ChatRequest(message, context, history, TRUE) >>, sessions, apiUsage,
               TRUE, ChatResponse)
  ELSE Outcome(<< ChatRequest(message, context, history, FALSE) >>,
               saveChatMessage(sessions, videoId, videoUuid, userId, message, AnswerText),
               IF withUsage THEN trackAPIUsage(apiUsage, userId, "chat", TotalTokens)
               ELSE apiUsage,
               FALSE, ChatResponse)

\* the outcomes of handleChatMessage(videoId, videoUuid, message, userId)
handleChatMessage(videoId, videoUuid, message, userId, fault, withUsage) ==
  IF ~openaiInitialized
  THEN { Outcome(<< >>, sessions, apiUsage, TRUE, ChatResponse) }
  ELSE { IF context.threw \/ (fault = "history" /\ ~isConnected)
         THEN Outcome(<< >>, sessions, apiUsage, TRUE, ChatResponse)
         ELSE generateChatResponse(
                message, WithMetadata(context, videoUuid), videoId, videoUuid, userId,
                IF fault = "history" THEN << >>
                ELSE getChatHistory(sessions, videoId, userId),
                fault, withUsage) :
           context \in getVideoContext(embeddings[videoUuid], snapshots[videoUuid],
                                       message, fault) }

\* POST /chat/send
SendChatMessage(a, userId, fault, withUsage) ==
  /\ call = NoCall
  /\ call' = Call("handleChatMessage",
                  [videoId |-> VideoId(a), videoUuid |-> a, message |-> Question,
                   userId |-> userId, fault |-> fault, withUsage |-> withUsage])
  /\ \E out \in handleChatMessage(VideoId(a), a, Question, userId, fault, withUsage) :
       /\ providerCalls' = providerCalls \o out.requests
       /\ sessions' = out.sessions
       /\ apiUsage' = out.apiUsage
       /\ result' = Returned(IF out.threw THEN ChatFailure ELSE ChatSuccess(out.response))
  /\ UNCHANGED << isConnected, openaiInitialized, videoState, captionAvailable, queue,
                  embeddings, snapshots, qTimers, tTimers, runs, nEvents >>

\* GET /chat/history/:videoId
ChatHistoryRequest(a, userId) ==
  /\ call.op # "getChatHistory"
  /\ call' = Call("getChatHistory", [videoId |-> VideoId(a), userId |-> userId])
  /\ result' = Returned(getChatHistory(sessions, VideoId(a), userId))
  /\ UNCHANGED << isConnected, openaiInitialized, videoState, captionAvailable, queue,
                  embeddings, snapshots, qTimers, tTimers, runs, nEvents,
                  sessions, apiUsage, providerCalls >>

\* who sends the i-th message of a conversation
Conversations == { "anonymous", "one viewer", "two viewers" }
Sender(conversation, i) ==
  IF conversation = "anonymous" THEN NULL
  ELSE IF conversation = "one viewer" \/ i % 2 = 1 THEN "u1"
  ELSE "u2"

\* the sessions left by saveChatMessage for n earlier exchanges about the asset
\* (n < SESSION_CAP): the native rows carry video_id, the fallback rows are
\* kept under the uuid
StoredSessions(a, n, conversation) ==
  LET key == IF ~isConnected THEN a ELSE VideoId(a)
  IN  [k \in StorageKeys |->
         IF k = key
         THEN [i \in 1..n |-> ChatRow(Sender(conversation, i), Question, AnswerText, i)]
         ELSE << >>]

\* the chunks of an asset with a transcript of `n` chunks, all embedded
ContextChunks(n) ==
  StoredChunks([i \in 1..n |-> generateEmbedding(<< SearchTexts[i] >>)])

\* the frames left by saveVideoSnapshot for an asset with n snapshots at the
\* default interval, saved without description and then, if analyzed, with one
\* (the fallback keeps the row first saved)
ContextFrames(n, analyzed) ==
  [i \in 1..n |->
     SnapshotRow(DefaultSnapshotInterval * (i - 1),
                 SnapshotPath(DefaultSnapshotInterval * (i - 1)),
                 IF analyzed /\ isConnected THEN FrameDescription ELSE NULL)]

ChatUsers == { NULL, "u1" }

NextChat ==
  \/ \E a \in Assets, userId \in ChatUsers, fault \in ChatFaults, withUsage \in BOOLEAN :
       SendChatMessage(a, userId, fault, withUsage)
  \/ \E a \in Assets, userId \in ChatUsers : ChatHistoryRequest(a, userId)

\* conversations of every length about an asset that was not processed
InitChat ==
  /\ AtRest
  /\ isConnected \in BOOLEAN
  /\ embeddings = [a \in Assets |-> << >>]
  /\ snapshots = [a \in Assets |-> << >>]
  /\ \E a \in Assets, n \in 0..MaxExchanges, conversation \in Conversations :
       sessions = StoredSessions(a, n, conversation)
  /\ apiUsage = << >>
  /\ providerCalls = << >>
  /\ call = NoCall
  /\ result = NoResult

SpecChat == InitChat /\ [][NextChat]_vars

\* a processed asset, with or without transcript and frames, and at most one
\* earlier exchange
InitContext ==
  /\ AtRest
  /\ isConnected \in BOOLEAN
  /\ \E chunks \in {0, 2} : embeddings = [a \in Assets |-> ContextChunks(chunks)]
  /\ \E n \in 0..MaxFrames, analyzed \in BOOLEAN :
       snapshots = [a \in Assets |-> ContextFrames(n, analyzed)]
  /\ \E a \in Assets, n \in 0..1 : sessions = StoredSessions(a, n, "one viewer")
  /\ apiUsage = << >>
  /\ providerCalls = << >>
  /\ call = NoCall
  /\ result = NoResult

SpecContext == InitContext /\ [][NextChat]_vars

----------------------------------------------------------------------------
(* The validation of the snapshot interval (extractVideoSnapshots) *)

\* values that parseInt gives for the 'snapshot-interval' setting
ConfiguredIntervals == (0 - 20)..80

InitInterval ==
  /\ AtRest
  /\ isConnected = FALSE
  /\ embeddings = [a \in Assets |-> << >>]
  /\ snapshots = [a \in Assets |-> << >>]
  /\ call \in { Call("snapshotInterval", [configured |-> c]) : c \in ConfiguredIntervals }
  /\ result = NoResult
  /\ NoChat

SnapshotIntervalReturns ==
  /\ call.op = "snapshotInterval"
  /\ ~result.returned
  /\ result' = Returned(snapshotInterval(call.args.configured))
  /\ UNCHANGED << isConnected, openaiInitialized, videoState, captionAvailable, queue,
                  embeddings, snapshots, qTimers, tTimers, runs, nEvents, call,
                  sessions, apiUsage, providerCalls >>

NextInterval == SnapshotIntervalReturns

SpecInterval == InitInterval /\ [][NextInterval]_vars

----------------------------------------------------------------------------
(* POST /processing/trigger/:videoUuid with its caller *)

ADMIN_ROLE == 0

\* getAuthUser: no user, or a user with role 0 (administrator), 1 (moderator)
\* or 2 (user)
NoUser == [present |-> FALSE, role |-> 2]
Requesters == { NoUser } \cup { [present |-> TRUE, role |-> r] : r \in 0..2 }

IsAnyUser(user) == user.present

\* !(!user || user.role !== 0)
IsAdmin(user) == user.present /\ user.role = ADMIN_ROLE

TriggerForbidden == [status |-> 403, body |-> "Admin access required"]
TriggerAccepted == [status |-> 200, body |-> "Video queued for processing"]

TriggerRequest(a, user) ==
  /\ nEvents < MaxEvents
  /\ nEvents' = nEvents + 1
  /\ call' = Call("trigger", [videoUuid |-> a, user |-> user])
  /\ IF ~IsAdmin(user)
     THEN /\ result' = Returned(TriggerForbidden)
          /\ UNCHANGED << queue, qTimers, runs >>
     ELSE /\ queueVideoForProcessing(a, 0, qTimers)
          /\ result' = Returned(TriggerAccepted)
  /\ UNCHANGED << isConnected, openaiInitialized, videoState, captionAvailable,
                  embeddings, snapshots, tTimers, sessions, apiUsage, providerCalls >>

\* the asset is transcoded and has no caption file; requests arrive while the
\* runs they started are in flight
InitTrigger ==
  /\ AtRest
  /\ isConnected \in BOOLEAN
  /\ embeddings = [a \in Assets |-> << >>]
  /\ snapshots = [a \in Assets |-> << >>]
  /\ call = NoCall
  /\ result = NoResult
  /\ NoChat

NextTrigger ==
  \/ \E a \in Assets, user \in Requesters : TriggerRequest(a, user)
  \/ \E t \in BagToSet(tTimers) : TranscriptRetryFires(t)
  \/ \E r \in BagToSet(runs) : SetProcessing(r)
  \/ \E r \in BagToSet(runs) : ExtractSnapshots(r)
  \/ \E r \in BagToSet(runs) : ProcessTranscript(r)
  \/ \E r \in BagToSet(runs) : SetCompleted(r)
  \/ \E r \in BagToSet(runs) : CatchError(r)

SpecTrigger == InitTrigger /\ [][NextTrigger]_vars

----------------------------------------------------------------------------
(* action:api.video.deleted (cleanupVideoData) *)

\* the rows of the processing queue of assets processed in the order `order`
RECURSIVE ProcessedQueue(_)
ProcessedQueue(order) ==
  IF order = << >> THEN << >>
  ELSE updateProcessingStatus(
         addToProcessingQueue(ProcessedQueue(SubSeq(order, 1, Len(order) - 1)),
                              order[Len(order)]),
         order[Len(order)], "completed", NULL)

VideoDeleted(a) ==
  /\ nEvents < MaxEvents
  /\ nEvents' = nEvents + 1
  /\ call' = Call("cleanupVideoData", [videoUuid |-> a])
  /\ LET db == cleanupVideoData(Stores(embeddings, snapshots, queue, sessions), a)
     IN  /\ embeddings' = db.embeddings
         /\ snapshots' = db.snapshots
         /\ queue' = db.queue
         /\ sessions' = db.sessions
  /\ result' = Returned(<< >>)
  /\ UNCHANGED << isConnected, openaiInitialized, videoState, captionAvailable,
                  qTimers, tTimers, runs, apiUsage, providerCalls >>

\* two assets, each processed or not, with or without a conversation
InitCleanup ==
  /\ isConnected \in BOOLEAN
  /\ openaiInitialized = TRUE
  /\ videoState = [a \in Assets |-> READY_STATE]
  /\ captionAvailable = [a \in Assets |-> FALSE]
  /\ qTimers = EmptyBag
  /\ tTimers = EmptyBag
  /\ runs = EmptyBag
  /\ nEvents = 0
  /\ \E processed \in SUBSET Catalog : \E order \in Orders(processed) :
       queue = ProcessedQueue(order)
  /\ embeddings \in [Catalog -> { << >>, ContextChunks(1) }]
  /\ snapshots \in [Catalog -> { << >>, ContextFrames(2, TRUE) }]
  /\ \E a \in Catalog, n \in 0..1 : sessions = StoredSessions(a, n, "one viewer")
  /\ apiUsage = << >>
  /\ providerCalls = << >>
  /\ call = NoCall
  /\ result = NoResult

NextCleanup == \E a \in Catalog : VideoDeleted(a)

SpecCleanup == InitCleanup /\ [][NextCleanup]_vars

----------------------------------------------------------------------------
(* getModelParams (openai service) *)

MaxSuffix == 2

\* a model identifier is the sequence of its characters
NewTokenPrefixes ==
  { << "g", "p", "t", "-", "4", "o" >>, << "g", "p", "t", "-", "4", ".", "1" >>,
    << "g", "p", "t", "-", "5" >>, << "o", "1" >>, << "o", "3" >> }
NoTemperaturePrefixes == { << "o", "1" >>, << "o", "3" >>, << "g", "p", "t", "-", "5" >> }

\* identifiers of older models ('gpt-4', 'gpt-4-turbo', 'gpt-3.5-turbo')
OlderModels ==
  { << "g", "p", "t", "-", "4", "-", "t", "u", "r", "b", "o" >>,
    << "g", "p", "t", "-", "3", ".", "5", "-", "t", "u", "r", "b", "o" >> }

\* every beginning of a known identifier, followed by up to MaxSuffix characters
Beginnings(id) == { SubSeq(id, 1, n) : n \in 0..Len(id) }
Suffixes == UNION { [1..n -> { "-", "m", "o" }] : n \in 0..MaxSuffix }
ModelIds ==
  { stem \o suffix :
      stem \in UNION { Beginnings(id) : id \in NewTokenPrefixes \cup OlderModels },
      suffix \in Suffixes }

\* model === prefix
IsExactly(model, prefix) == model = prefix

\* model.startsWith(prefix)
StartsWith(model, prefix) ==
  Len(model) >= Len(prefix) /\ SubSeq(model, 1, Len(prefix)) = prefix

\* the params object, as a function of its keys
getModelParams(model, tokens, temperature) ==
  LET usesNewTokenParam == \E prefix \in NewTokenPrefixes : StartsWith(model, prefix)
      noTemperatureSupport == \E prefix \in NoTemperaturePrefixes : StartsWith(model, prefix)
      keys == { IF usesNewTokenParam THEN "max_completion_tokens" ELSE "max_tokens" }
              \cup (IF ~noTemperatureSupport THEN { "temperature" } ELSE {})
  IN  [k \in keys |-> IF k = "temperature" THEN temperature ELSE tokens]

\* tokens: 150 (image analysis) or the configured maximum; temperature 0.7 as 7
InitModelParams ==
  /\ AtRest
  /\ isConnected = FALSE
  /\ embeddings = [a \in Assets |-> << >>]
  /\ snapshots = [a \in Assets |-> << >>]
  /\ call \in { Call("getModelParams", [model |-> m, tokens |-> t, temperature |-> 7]) :
                  m \in ModelIds, t \in { 150, 1000 } }
  /\ result = NoResult
  /\ NoChat

GetModelParamsReturns ==
  /\ call.op = "getModelParams"
  /\ ~result.returned
  /\ result' = Returned(getModelParams(call.args.model, call.args.tokens,
                                       call.args.temperature))
  /\ UNCHANGED << isConnected, openaiInitialized, videoState, captionAvailable, queue,
                  embeddings, snapshots, qTimers, tTimers, runs, nEvents, call,
                  sessions, apiUsage, providerCalls >>

NextModelParams == GetModelParamsReturns

SpecModelParams == InitModelParams /\ [][NextModelParams]_vars

----------------------------------------------------------------------------
(* parseTranscript on any sequence of lines *)

MaxLines == 5

\* the lines a caption file can hold: header, blank, cue (at 0:00, 0:30 or
\* 0:45), text
CaptionLines ==
  { HeaderLine, BlankLine, TextLine("words") }
  \cup { CueLine(TimestampParts(seconds)) : seconds \in { 0, 30, 45 } }

LineSequences == UNION { [1..n -> CaptionLines] : n \in 0..MaxLines }

InitLines ==
  /\ AtRest
  /\ isConnected = FALSE
  /\ embeddings = [a \in Assets |-> << >>]
  /\ snapshots = [a \in Assets |-> << >>]
  /\ call \in { Call("parseTranscript", [transcriptText |-> t]) : t \in LineSequences }
  /\ result = NoResult
  /\ NoChat

SpecLines == InitLines /\ [][NextSegmenter]_vars

----------------------------------------------------------------------------
(* extractVideoSnapshots on a video of several snapshot timestamps *)

BatchDuration == 11

\* the frames of the video: the loop's timestamps for the configured interval
BatchTimestamps(configured) ==
  LET timestamps == SnapshotTimestamps(snapshotInterval(configured), BatchDuration)
  IN  { timestamps[k] : k \in DOMAIN timestamps }

\* extracted: the timestamps whose ffmpeg run and frame write succeed;
\* analyzed: those among them whose image read and analysis succeed
BatchCalls ==
  { Call("extractVideoSnapshots",
         [configured |-> configured, extracted |-> extracted, analyzed |-> analyzed]) :
      configured \in IntervalSettings,
      extracted \in SUBSET BatchTimestamps(5),
      analyzed \in SUBSET BatchTimestamps(5) }

InitBatch ==
  /\ isConnected \in BOOLEAN
  /\ openaiInitialized \in BOOLEAN
  /\ videoState = [a \in Assets |-> READY_STATE]
  /\ captionAvailable = [a \in Assets |-> FALSE]
  /\ queue = << >>
  /\ embeddings = [a \in Assets |-> << >>]
  /\ snapshots = [a \in Assets |-> << >>]
  /\ qTimers = EmptyBag
  /\ tTimers = EmptyBag
  /\ runs = EmptyBag
  /\ nEvents = 0
  /\ call \in { c \in BatchCalls :
                  /\ c.args.extracted \subseteq BatchTimestamps(c.args.configured)
                  /\ c.args.analyzed \subseteq c.args.extracted }
  /\ result = NoResult
  /\ NoChat

\* every failure of the loop body and of analyzeSnapshots is caught and logged:
\* the call returns
ExtractVideoSnapshotsReturns ==
  /\ call.op = "extractVideoSnapshots"
  /\ ~result.returned
  /\ \E a \in Assets :
       /\ snapshots' = [snapshots EXCEPT ![a] =
            extractVideoSnapshotsOf(@, call.args.configured, BatchDuration,
                                    call.args.extracted, call.args.analyzed)]
       /\ result' = Returned(a)
  /\ UNCHANGED << isConnected, openaiInitialized, videoState, captionAvailable, queue,
                  embeddings, qTimers, tTimers, runs, nEvents, call,
                  sessions, apiUsage, providerCalls >>

NextBatch == ExtractVideoSnapshotsReturns

SpecBatch == InitBatch /\ [][NextBatch]_vars

----------------------------------------------------------------------------
(* action:api.video.deleted while a run or a transcript retry is pending *)

NextDeletion ==
  \/ \E a \in Assets, user \in Requesters : TriggerRequest(a, user)
  \/ \E a \in Assets : VideoDeleted(a)
  \/ \E a \in Assets : CaptionBecomesAvailable(a)
  \/ \E t \in BagToSet(tTimers) : TranscriptRetryFires(t)
  \/ \E r \in BagToSet(runs) : SetProcessing(r)
  \/ \E r \in BagToSet(runs) : ExtractSnapshots(r)
  \/ \E r \in BagToSet(runs) : ProcessTranscript(r)
  \/ \E r \in BagToSet(runs) : SetCompleted(r)
  \/ \E r \in BagToSet(runs) : CatchError(r)

SpecDeletion == InitTrigger /\ [][NextDeletion]_vars

----------------------------------------------------------------------------
(* Fallback backend: two calls of the database service, for two assets, in   *)
(* flight together.  Each call awaits storageManager.getData(key), changes   *)
(* the object it got, and awaits storageManager.storeData(key, object).      *)

FallbackOps ==
  { "saveVideoEmbedding", "saveVideoSnapshot", "addToProcessingQueue",
    "updateProcessingStatus" }

EmptyStore == [k \in Catalog |-> << >>]

\* a call in flight, before its getData; chunks, frames and rows hold the
\* object that getData returns to the call
Writer(a, op) ==
  [asset |-> a, op |-> op, pc |-> "getData", chunks |-> EmptyStore, frames |-> EmptyStore,
   rows |-> << >>]

\* what the calls write: chunk 1 of the transcript, the frame at 5 s
WrittenChunk == SearchChunk(1, NoEmbedding)
WrittenTimestamp == DefaultSnapshotInterval

\* await storageManager.getData(key) returns the object stored under the key
GetData(w) ==
  /\ BagIn(w, runs) /\ w.pc = "getData"
  /\ runs' = Replace(runs, w,
       [w EXCEPT !.pc = "storeData",
                 !.chunks = IF w.op = "saveVideoEmbedding" THEN embeddings ELSE @,
                 !.frames = IF w.op = "saveVideoSnapshot" THEN snapshots ELSE @,
                 !.rows = IF w.op \in { "addToProcessingQueue", "updateProcessingStatus" }
                          THEN queue ELSE @])
  /\ UNCHANGED << isConnected, openaiInitialized, videoState, captionAvailable, queue,
                  embeddings, snapshots, qTimers, tTimers, nEvents, call, result,
                  sessions, apiUsage, providerCalls >>

\* the call changes its object and stores the whole of it under the key; the
\* frame and the queue functions store only when they changed something
StoreData(w) ==
  /\ BagIn(w, runs) /\ w.pc = "storeData"
  /\ runs' = Replace(runs, w, [w EXCEPT !.pc = "done"])
  /\ embeddings' =
       IF w.op = "saveVideoEmbedding"
       THEN [w.chunks EXCEPT ![w.asset] = saveVideoEmbeddingFallback(@, 1, WrittenChunk)]
       ELSE embeddings
  /\ snapshots' =
       IF /\ w.op = "saveVideoSnapshot"
          /\ \A i \in DOMAIN w.frames[w.asset] :
               w.frames[w.asset][i].timestamp # WrittenTimestamp
       THEN [w.frames EXCEPT ![w.asset] =
               saveVideoSnapshotFallback(@, WrittenTimestamp,
                                         SnapshotPath(WrittenTimestamp), NULL)]
       ELSE snapshots
  /\ queue' =
       IF w.op = "addToProcessingQueue" /\ ~QueueHas(w.rows, w.asset)
       THEN addToProcessingQueueFallback(w.rows, w.asset)
       ELSE IF w.op = "updateProcessingStatus" /\ QueueHas(w.rows, w.asset)
       THEN updateProcessingStatusFallback(w.rows, w.asset, "processing", NULL)
       ELSE queue
  /\ UNCHANGED << isConnected, openaiInitialized, videoState, captionAvailable,
                  qTimers, tTimers, nEvents, call, result,
                  sessions, apiUsage, providerCalls >>

\* two assets, each processed or not, and one call in flight for each
InitFallback ==
  /\ isConnected = FALSE
  /\ openaiInitialized = TRUE
  /\ videoState = [a \in Assets |-> READY_STATE]
  /\ captionAvailable = [a \in Assets |-> FALSE]
  /\ qTimers = EmptyBag
  /\ tTimers = EmptyBag
  /\ nEvents = 0
  /\ \E processed \in SUBSET Catalog : \E order \in Orders(processed) :
       queue = ProcessedQueue(order)
  /\ embeddings \in [Catalog -> { << >>, ContextChunks(1) }]
  /\ snapshots \in [Catalog -> { << >>, ContextFrames(1, FALSE) }]
  /\ \E first \in FallbackOps, second \in FallbackOps :
       runs = SetToBag({ Writer("v1", first), Writer("v2", second) })
  /\ call = NoCall
  /\ result = NoResult
  /\ NoChat

NextFallback ==
  \/ \E w \in BagToSet(runs) : GetData(w)
  \/ \E w \in BagToSet(runs) : StoreData(w)

SpecFallback == InitFallback /\ [][NextFallback]_vars

----------------------------------------------------------------------------
(* Progress of the processing record: every timer fires and every awaited   *)
(* call returns, with a result or with an error                             *)

\* the retry timer fires and peertubeHelpers.videos.loadByIdOrUUID throws: the
\* catch block of queueVideoForProcessing logs the error, nothing is written
\* and no retry is scheduled
QueueRetryLoadFails(t) ==
  /\ BagIn(t, qTimers)
  /\ qTimers' = qTimers (-) SetToBag({t})
  /\ UNCHANGED << isConnected, openaiInitialized, videoState, captionAvailable, queue,
                  embeddings, snapshots, tTimers, runs, nEvents, call, result,
                  sessions, apiUsage, providerCalls >>

TimerFires ==
  \/ \E t \in BagToSet(qTimers) : QueueRetryFires(t)
  \/ \E t \in BagToSet(qTimers) : QueueRetryLoadFails(t)
  \/ \E t \in BagToSet(tTimers) : TranscriptRetryFires(t)

RunSteps ==
  \/ \E r \in BagToSet(runs) : SetProcessing(r)
  \/ \E r \in BagToSet(runs) : ExtractSnapshots(r)
  \/ \E r \in BagToSet(runs) : ProcessTranscript(r)
  \/ \E r \in BagToSet(runs) : SetCompleted(r)
  \/ \E r \in BagToSet(runs) : CatchError(r)

NextLive ==
  \/ \E a \in Assets : VideoStateChanges(a)
  \/ \E a \in Assets : VideoUploaded(a)
  \/ TimerFires
  \/ RunSteps

SpecLive == Init /\ [][NextLive]_vars /\ WF_vars(TimerFires) /\ WF_vars(RunSteps)

----------------------------------------------------------------------------
(* Properties *)

\* the Processing Record of the asset (the asset has one)
Record(q, a) == q[QueueFind(q, a)]

\* the timer t of the bag `timers` is no longer pending in timers'
Fired(t, timers, timersAfter) == CopiesIn(t, timersAfter) < CopiesIn(t, timers)

Without(b, x) == b (-) SetToBag({x})
With(b, x) == b (+) SetToBag({x})

DelaySeconds == << 30, 60, 120, 300, 600 >>

\* C1: for one asset there is never more than one processVideo run in flight.
C1_OnePipelinePerAsset == \A a \in Assets : RunsInFlight(a) <= 1

\* C2: the status of a Processing Record becomes completed only from
\* processing.
C2_CompletedOnlyFromProcessing ==
  [][\A a \in Assets :
       (getProcessingStatus(queue', a) = "completed"
          /\ getProcessingStatus(queue, a) # "completed")
       => getProcessingStatus(queue, a) = "processing"]_vars

\* C3: no two stored chunks of an asset have the same chunk index, so the
\* number of stored chunks is the number of distinct indices stored: an upsert
\* of an index that is already stored adds no row.
C3_ChunkIndexUnique ==
  \A a \in Assets :
    /\ \A i, j \in DOMAIN embeddings[a] :
         i # j => embeddings[a][i].chunkIndex # embeddings[a][j].chunkIndex
    /\ Len(embeddings[a]) <= Len(CaptionChunks)

\* a chunk that carries an embedding was written twice: by processVideoTranscript
\* without one, then by generateVideoEmbeddings with one
C3_Witness ==
  \E a \in Assets :
    /\ Len(embeddings[a]) = Len(CaptionChunks)
    /\ \A i \in DOMAIN embeddings[a] : embeddings[a][i].embedding # NoEmbedding
    /\ ~isConnected

C4_TimersWellFormed ==
  \A t \in BagToSet(qTimers) :
    /\ t.retryCount \in 1..5
    /\ t.delay = 1000 * DelaySeconds[t.retryCount]
    /\ nEvents = 1 =>
         /\ BagCardinality(qTimers) = 1
         /\ QueueHas(queue, t.asset)
         /\ Record(queue, t.asset).status = "pending"
         /\ Record(queue, t.asset).errorMessage = WaitingMessage(t.retryCount - 1)

C4_RetryStep ==
  \A t \in BagToSet(qTimers) :
    (Fired(t, qTimers, qTimers') /\ ~isVideoReady(videoState[t.asset])) =>
      IF t.retryCount < 5
      THEN /\ qTimers' = With(Without(qTimers, t),
                              Timer(t.asset, t.retryCount + 1,
                                    1000 * DelaySeconds[t.retryCount + 1]))
           /\ getProcessingStatus(queue', t.asset) = "pending"
      ELSE /\ qTimers' = Without(qTimers, t)
           /\ getProcessingStatus(queue', t.asset) = "error"
           /\ Record(queue', t.asset).errorMessage = TimeoutMessage

\* C4: while the asset is not ready, a call of queueVideoForProcessing leads to
\* at most 5 retries, scheduled after 30s, 60s, 120s, 300s and 600s in that
\* order; the record is pending between the retries; the fifth retry that finds
\* the asset not ready sets the record to error with the time-out message and
\* schedules nothing.
C4_BoundedRetrySequence == [](C4_TimersWellFormed) /\ [][C4_RetryStep]_vars

\* one call, the asset never ready: the chain has given up
C4_Witness ==
  \E a \in Assets :
    /\ nEvents = 1
    /\ qTimers = EmptyBag
    /\ QueueHas(queue, a)
    /\ Record(queue, a).status = "error"
    /\ Record(queue, a).errorMessage = TimeoutMessage

\* C5: a retry timer of queueVideoForProcessing that fires when the record is
\* completed changes no status and starts no run.
C5_StaleRetryIsNoOp ==
  [][\A t \in BagToSet(qTimers) :
       (Fired(t, qTimers, qTimers') /\ getProcessingStatus(queue, t.asset) = "completed")
       => (queue' = queue /\ runs' = runs)]_vars

C6_TimersWellFormed ==
  \A t \in BagToSet(tTimers) : t.retryCount \in 1..5 /\ t.delay = 60000

C6_RetryStep ==
  \A t \in BagToSet(tTimers) :
    Fired(t, tTimers, tTimers') =>
      IF embeddings'[t.asset] = <<>> /\ t.retryCount < 5
      THEN tTimers' = With(Without(tTimers, t), Timer(t.asset, t.retryCount + 1, 60000))
      ELSE tTimers' = Without(tTimers, t)

\* C6: a chain of checkAndProcessTranscript retries is at most 5 retries long,
\* each scheduled 60s after an attempt that left no chunk; a retry that leaves
\* at least one chunk, and the fifth retry, schedule nothing.
C6_TranscriptRetryChain == [](C6_TimersWellFormed) /\ [][C6_RetryStep]_vars

\* the fifth retry is pending and there is still neither caption nor chunk
C6_Witness ==
  \E t \in BagToSet(tTimers) :
    /\ t.retryCount = 5
    /\ embeddings[t.asset] = <<>>
    /\ ~captionAvailable[t.asset]

\* C7: a Processing Record has a processedAt exactly when its status is
\* completed.
C7_ProcessedAtIffCompleted ==
  \A i \in DOMAIN queue : (queue[i].processedAt # NULL) <=> (queue[i].status = "completed")

\* a run has completed and its record carries the stamp
C7_Witness ==
  \E i \in DOMAIN queue :
    /\ queue[i].status = "completed"
    /\ queue[i].processedAt = NOW

C8_OneRecordPerAsset ==
  \A a \in Assets : Cardinality({i \in DOMAIN queue : queue[i].videoUuid = a}) <= 1

\* a step that starts a run has called addToProcessingQueue and has made no
\* other write to the queue
C8_EnqueueKeepsStatus ==
  \A a \in Assets :
    (QueueHas(queue, a) /\ RunsInFlight(a)' > RunsInFlight(a)) => queue' = queue

\* C8: there is at most one Processing Record per asset, and
\* addToProcessingQueue for an asset that has a record leaves the record as it
\* is.
C8_EnqueueIdempotent == [](C8_OneRecordPerAsset) /\ [][C8_EnqueueKeepsStatus]_vars

\* a re-trigger of a completed asset has started a run; the record is still
\* completed
C8_Witness ==
  \E r \in BagToSet(runs) :
    /\ r.pc = "start"
    /\ getProcessingStatus(queue, r.asset) = "completed"

\* C9: a run in which a chunk write threw during the transcript stage ends
\* with the record in error.
C9_ChunkWriteFailureEndsInError ==
  [][\A r \in BagToSet(runs) :
       (r.pc = "finish" /\ r.writeThrew /\ Fired(r, runs, runs'))
       => getProcessingStatus(queue', r.asset) = "error"]_vars

\* C10: the catch block of processVideo sets the record to error with the
\* message of the exception and ends the run; the stored chunks and frames are
\* left as they are, and nothing is scheduled.
C10_ErrorKeepsArtifacts ==
  [][\A r \in BagToSet(runs) :
       (r.pc = "catch" /\ Fired(r, runs, runs')) =>
         /\ getProcessingStatus(queue', r.asset) = "error"
         /\ Record(queue', r.asset).errorMessage = r.error
         /\ runs' = Without(runs, r)
         /\ embeddings' = embeddings
         /\ snapshots' = snapshots
         /\ qTimers' = qTimers
         /\ tTimers' = tTimers]_vars

\* a run has failed while chunks and frames of an earlier run were stored
C10_Witness ==
  \E a \in Assets :
    /\ getProcessingStatus(queue, a) = "error"
    /\ Record(queue, a).errorMessage = MkdirMessage
    /\ embeddings[a] # <<>>
    /\ snapshots[a] # <<>>
    /\ RunsInFlight(a) = 0

\* the stored chunks of an asset without their embeddings
ChunkSet(rows) ==
  { [index |-> rows[i].chunkIndex, startTime |-> rows[i].startTime,
     endTime |-> rows[i].endTime, content |-> rows[i].content] : i \in DOMAIN rows }

\* C11: the transcript stage of a processVideo run that was started while the
\* record of the asset was completed, the caption file being the same as
\* before, leaves the set of stored chunks (index, start time, end time, text)
\* as it was.
C11_RetriggerKeepsChunks ==
  [][\A r \in BagToSet(runs) :
       (r.retrigger /\ r.pc = "transcript" /\ Fired(r, runs, runs'))
       => ChunkSet(embeddings'[r.asset]) = ChunkSet(embeddings[r.asset])]_vars

\* the stored chunk that a returned row stands for
StoredAs(rows, found) ==
  { i \in DOMAIN rows : /\ rows[i].startTime = found.startTime
                        /\ rows[i].endTime = found.endTime
                        /\ rows[i].content = found.content }

SearchReturned == call.op = "findSimilarChunks" /\ result.returned
SearchedRows == embeddings[call.args.videoUuid]

\* C12: every chunk that findSimilarChunks returns is stored with an embedding.
C12_NoChunkWithoutEmbedding ==
  SearchReturned =>
    \A j \in DOMAIN result.value :
      \A i \in StoredAs(SearchedRows, result.value[j]) :
        SearchedRows[i].embedding # NoEmbedding

EmbeddedCount(rows) == Cardinality({ i \in DOMAIN rows : rows[i].embedding # NoEmbedding })

\* C13: with the fallback backend findSimilarChunks returns min(limit, N)
\* chunks, N being the number of chunks of the asset that have an embedding,
\* and no returned chunk is less similar to the query than the one after it.
C13_FallbackCountAndOrder ==
  (SearchReturned /\ ~isConnected) =>
    /\ Len(result.value) =
         (IF call.args.limit < EmbeddedCount(SearchedRows)
          THEN call.args.limit ELSE EmbeddedCount(SearchedRows))
    /\ \A j \in 1..(Len(result.value) - 1) :
         ~SimilarityLess(result.value[j].similarity, result.value[j + 1].similarity)

\* the chunks with an embedding, most similar first, equal scores by ascending
\* chunk index
RECURSIVE InsertRanked(_, _)
InsertRanked(s, x) ==
  IF s = <<>> THEN <<x>>
  ELSE IF \/ SimilarityLess(s[1].similarity, x.similarity)
          \/ /\ ~SimilarityLess(x.similarity, s[1].similarity)
             /\ x.chunkIndex < s[1].chunkIndex
  THEN <<x>> \o s
  ELSE <<s[1]>> \o InsertRanked(Tail(s), x)

RECURSIVE RankFrom(_, _, _)
RankFrom(rows, queryEmbedding, i) ==
  IF i > Len(rows) THEN <<>>
  ELSE IF rows[i].embedding = NoEmbedding THEN RankFrom(rows, queryEmbedding, i + 1)
  ELSE InsertRanked(RankFrom(rows, queryEmbedding, i + 1),
                    [chunkIndex |-> rows[i].chunkIndex, startTime |-> rows[i].startTime,
                     similarity |-> cosineSimilarity(queryEmbedding, rows[i].embedding)])

\* C14: both backends return the chunks in one order, the order of descending
\* score with equal scores by ascending chunk index.
C14_BackendsRankAlike ==
  SearchReturned =>
    LET ranking == Slice(RankFrom(SearchedRows, call.args.queryEmbedding, 1),
                         call.args.limit)
    IN  /\ Len(result.value) = Len(ranking)
        /\ \A j \in DOMAIN ranking : result.value[j].startTime = ranking[j].startTime

\* C15: cosineSimilarity returns 0, a number, when a vector is missing, when
\* the lengths of the vectors differ and when a vector is all zeros.
C15_CosineDegenerateIsZero ==
  (/\ call.op = "cosineSimilarity"
   /\ result.returned
   /\ \/ call.args.vecA = NoEmbedding
      \/ call.args.vecB = NoEmbedding
      \/ Len(call.args.vecA) # Len(call.args.vecB)
      \/ AllZero(call.args.vecA)
      \/ AllZero(call.args.vecB))
  => IsZero(result.value)

\* the call has returned for an all-zero vector and a vector of the same
\* length that is not zero
C15_Witness ==
  /\ call.op = "cosineSimilarity"
  /\ result.returned
  /\ AllZero(call.args.vecA)
  /\ call.args.vecB # NoEmbedding
  /\ Len(call.args.vecA) = Len(call.args.vecB)
  /\ ~AllZero(call.args.vecB)

ParseReturned == call.op = "parseTranscript" /\ result.returned

IsCue(line) == line.kind = "cue"
IsText(line) == line.kind = "text"

\* the start times of the cues of the caption file that was parsed
CueStarts ==
  LET cues == SelectSeq(call.args.transcriptText, IsCue)
  IN  [k \in DOMAIN cues |-> parseTimestamp(cues[k].parts)]

\* the text lines of the cues numbered in `cueNumbers`, in file order
RECURSIVE TextsFrom(_, _, _)
TextsFrom(lines, i, cueNumbers) ==
  IF i > Len(lines) THEN <<>>
  ELSE (IF IsText(lines[i]) /\ lines[i].text[1] \in cueNumbers
        THEN << lines[i].text >> ELSE <<>>)
       \o TextsFrom(lines, i + 1, cueNumbers)

TextsOfCues(cueNumbers) == TextsFrom(call.args.transcriptText, 1, cueNumbers)

\* C16: for cues at 0:00, 0:15 and 0:45 parseTranscript emits two chunks, the
\* first from 0 to 30 with the text of the first two cues, the second from 30
\* to 45 with the text of the third, and the prompt labels the first chunk
\* [0:00 - 0:30].
C16_ExampleTwoChunks ==
  (ParseReturned /\ CueStarts = << 0, 15, 45 >>) =>
    /\ Len(result.value) = 2
    /\ result.value[1].startTime = 0
    /\ result.value[1].endTime = 30
    /\ result.value[1].content = TextsOfCues({1, 2})
    /\ result.value[2].startTime = 30
    /\ result.value[2].endTime = 45
    /\ result.value[2].content = TextsOfCues({3})
    /\ ChunkLabel(result.value[1]) = << << 0, 0 >>, << 0, 30 >> >>

CueSpan == IF CueStarts = <<>> THEN 0 ELSE CueStarts[Len(CueStarts)] - CueStarts[1]

\* C17: parseTranscript emits one chunk when the cue start times span the
\* segment duration, and 2 to 4 chunks when they span three times the segment
\* duration.
C17_ChunkCountBySpan ==
  ParseReturned =>
    /\ CueSpan = chunkDuration => Len(result.value) = 1
    /\ CueSpan = 3 * chunkDuration => Len(result.value) \in 2..4

\* C18: the last chunk ends at the last cue start time seen; when no cue time
\* later than its start was seen it ends at its start plus the segment
\* duration; it does not end before it starts.
C18_LastChunkEnd ==
  (ParseReturned /\ result.value # <<>>) =>
    LET last == result.value[Len(result.value)]
        lastCueStart == CueStarts[Len(CueStarts)]
    IN  /\ last.endTime = (IF lastCueStart > last.startTime THEN lastCueStart
                           ELSE last.startTime + chunkDuration)
        /\ last.endTime >= last.startTime

\* C19: when saveVideoSnapshot(asset, t, ref, d) has returned, the asset has
\* exactly one frame with timestamp t, and its description is d.
C19_SnapshotUpsert ==
  (call.op = "saveVideoSnapshot" /\ result.returned) =>
    LET rows == snapshots[call.args.videoUuid]
        at == { i \in DOMAIN rows : rows[i].timestamp = call.args.timestamp }
    IN  /\ Cardinality(at) = 1
        /\ \A i \in at : rows[i].description = call.args.description

\* the timestamps of the sequence, ascending
RECURSIVE Ascending(_)
Ascending(set) ==
  IF set = {} THEN <<>>
  ELSE LET least == CHOOSE t \in set : \A u \in set : t <= u
       IN  << least >> \o Ascending(set \ {least})

\* C20: getVideoSnapshots(asset, minTime, maxTime) returns the frames of the
\* asset with minTime <= timestamp <= maxTime, and no other, by ascending
\* timestamp.
C20_SnapshotsInRange ==
  (call.op = "getVideoSnapshots" /\ result.returned /\ call.args.ranged) =>
    LET rows == snapshots[call.args.videoUuid]
        wanted == { rows[i].timestamp : i \in
                      { j \in DOMAIN rows : /\ rows[j].timestamp >= call.args.minTime
                                            /\ rows[j].timestamp <= call.args.maxTime } }
    IN  [i \in DOMAIN result.value |-> result.value[i].timestamp] = Ascending(wanted)

\* a token of the form [M:SS], [MM:SS], [H:MM:SS] or [HH:MM:SS]
TimeToken(token) ==
  /\ token.bracketed
  /\ \/ Len(token.groups) = 2
     \/ Len(token.groups) = 3
  /\ Len(token.groups[1]) \in 1..2
  /\ \A i \in 2..Len(token.groups) : Len(token.groups[i]) = 2

Decimal(digits) ==
  IF Len(digits) = 1 THEN digits[1] ELSE 10 * digits[1] + digits[2]

SecondsOfToken(token) ==
  LET g == token.groups
  IN  IF Len(g) = 2 THEN 60 * Decimal(g[1]) + Decimal(g[2])
      ELSE 3600 * Decimal(g[1]) + 60 * Decimal(g[2]) + Decimal(g[3])

ExtractReturned == call.op = "extractTimestamps" /\ result.returned

\* C26: extractTimestamps returns one entry for every bracketed token of the
\* form [M:SS], [MM:SS] or [H:MM:SS] of the text, in order of appearance, with
\* seconds 60*M + SS or 3600*H + 60*MM + SS ("[1:05]" gives 65, "[12:30:00]"
\* gives 45000), and the empty list when the text has no such token.
C26_ExtractTimestamps ==
  ExtractReturned =>
    LET tokens == SelectSeq(call.args.text, TimeToken)
    IN  /\ Len(result.value) = Len(tokens)
        /\ \A i \in DOMAIN tokens :
             /\ result.value[i].display = tokens[i]
             /\ result.value[i].seconds = SecondsOfToken(tokens[i])

C26_Witness ==
  /\ ExtractReturned
  /\ call.args.text = << Token(TRUE, << << 1 >>, << 0, 5 >> >>),
                         Token(TRUE, << << 1, 2 >>, << 3, 0 >>, << 0, 0 >> >>) >>
  /\ result.value[1].seconds = 65
  /\ result.value[2].seconds = 45000

\* the creation stamp of a chat row, as stored or as returned by either backend
Stamp(row) == IF "createdAt" \in DOMAIN row THEN row.createdAt ELSE row.created_at
Stamps(rows) == [i \in DOMAIN rows |-> Stamp(rows[i])]

\* the exchanges stored about the asset, those of the user when one is given,
\* oldest first
AssetExchanges(store, a, userId) ==
  LET mine(row) == userId = NULL \/ row.userId = userId
  IN  SelectSeq(store[VideoId(a)] \o store[a], mine)

\* the step is a handleChatMessage that sent a request to the provider
ChatRequestSent ==
  /\ call = NoCall
  /\ call'.op = "handleChatMessage"
  /\ Len(providerCalls') = Len(providerCalls) + 1

\* C21: the history that handleChatMessage passes to the provider is the
\* min(20, N) most recent of the N exchanges stored about the asset, oldest
\* first, with either backend.
C21_RecentHistoryChronological ==
  [][(ChatRequestSent /\ call'.args.fault # "history") =>
       LET stored == AssetExchanges(sessions, call'.args.videoUuid, call'.args.userId)
       IN  Stamps(providerCalls'[Len(providerCalls')].history)
             = Stamps(Last(stored, 20))]_vars

HistoryReturned == call.op = "getChatHistory" /\ result.returned

\* C22: an exchange persisted by handleChatMessage is returned by a later
\* getChatHistory for the same asset (and user), with either backend.
C22_PersistedIsReturned ==
  HistoryReturned =>
    \A a \in Assets :
      VideoId(a) = call.args.videoId =>
        LET stored == AssetExchanges(sessions, a, call.args.userId)
        IN  \A i \in DOMAIN stored :
              \E j \in DOMAIN result.value :
                /\ Stamp(result.value[j]) = stored[i].createdAt
                /\ result.value[j].message = stored[i].message
                /\ result.value[j].response = stored[i].response

ChatReturned == call.op = "handleChatMessage" /\ result.returned

\* C24: when the completion request of handleChatMessage fails, the error
\* reaches the route, which answers with a failure, and neither a chat exchange
\* nor a usage record is appended.
C24_ProviderFailureStoresNothing ==
  [][(call = NoCall /\ call'.op = "handleChatMessage" /\ call'.args.fault = "provider") =>
       /\ Len(providerCalls') = Len(providerCalls) + 1
       /\ providerCalls'[Len(providerCalls')].failed
       /\ sessions' = sessions
       /\ apiUsage' = apiUsage
       /\ result' = Returned(ChatFailure)]_vars

C24_Witness ==
  /\ ChatReturned
  /\ call.args.fault = "provider"
  /\ call.args.withUsage
  /\ providerCalls # << >>
  /\ result.value.status = 500
  /\ Len(AssetExchanges(sessions, call.args.videoUuid, NULL)) = 1

\* C25: when the embedding of the question or the search of the chunks fails,
\* handleChatMessage still sends the question to the provider.
C25_ContextFailureStillAsks ==
  (ChatReturned /\ call.args.fault \in { "embedding", "search" }) =>
    /\ Len(providerCalls) = 1
    /\ providerCalls[1].message = call.args.message
    /\ providerCalls[1].snapshots = << >>
    /\ result.value = ChatSuccess(ChatResponse)

C25_Witness ==
  /\ ChatReturned
  /\ call.args.fault = "embedding"
  /\ ~isConnected
  /\ embeddings[call.args.videoUuid] # << >>
  /\ Len(providerCalls) = 1
  /\ providerCalls[1].chunks = << >>
  /\ result.value.status = 200

\* C29: the context sent with a chat message holds at most 10 frame descriptions.
C29_AtMostTenFrames ==
  \A i \in DOMAIN providerCalls : Len(providerCalls[i].snapshots) <= 10

IntervalReturned == call.op = "snapshotInterval" /\ result.returned

\* C27: the snapshot interval used is always within 1..60 seconds; a configured
\* value within the range is used as it is, a value below 1 becomes 1 and a
\* value above 60 becomes 60.
C27_IntervalClamped ==
  IntervalReturned =>
    /\ result.value \in 1..60
    /\ result.value = (IF call.args.configured < 1 THEN 1
                       ELSE IF call.args.configured > 60 THEN 60
                       ELSE call.args.configured)

CleanupStep == nEvents' = nEvents + 1 /\ call'.op = "cleanupVideoData"

\* nothing is stored about the asset
NoDataOf(a) ==
  /\ embeddings[a] = << >>
  /\ snapshots[a] = << >>
  /\ ~QueueHas(queue, a)
  /\ sessions[a] = << >>

\* C23: after cleanupVideoData the asset has no chunk, no frame description and
\* no Processing Record, with either backend; the data of every other asset is
\* unchanged; a call for an asset without stored data (a second call, too)
\* succeeds and changes nothing.
C23_CleanupRemovesOnlyTheAsset ==
  [][CleanupStep =>
       LET a == call'.args.videoUuid
       IN  /\ result' = Returned(<< >>)
           /\ embeddings'[a] = << >>
           /\ snapshots'[a] = << >>
           /\ ~QueueHas(queue', a)
           /\ \A b \in Catalog \ {a} :
                /\ embeddings'[b] = embeddings[b]
                /\ snapshots'[b] = snapshots[b]
                /\ sessions'[b] = sessions[b]
                /\ sessions'[VideoId(b)] = sessions[VideoId(b)]
           /\ QueueWithout(queue', a) = QueueWithout(queue, a)
           /\ NoDataOf(a) =>
                /\ embeddings' = embeddings
                /\ snapshots' = snapshots
                /\ queue' = queue
                /\ sessions' = sessions]_vars

C23_Witness ==
  /\ call.op = "cleanupVideoData"
  /\ call.args.videoUuid = "v1"
  /\ nEvents = 2
  /\ NoDataOf("v1")
  /\ embeddings["v2"] # << >>
  /\ snapshots["v2"] # << >>
  /\ QueueHas(queue, "v2")
  /\ sessions["v2"] # << >>

\* C30: whenever the Processing Record of an asset is completed, the transcript
\* stage of the run that completed it has finished: no transcript retry timer
\* scheduled by that run is still pending (stated for an asset that one event
\* has reached, so that every transcript timer of the asset comes from that run).
C30_CompletedAfterTranscriptStage ==
  \A a \in Assets :
    (nEvents = 1 /\ getProcessingStatus(queue, a) = "completed") =>
      \A t \in BagToSet(tTimers) : t.asset # a

\* the identifier begins with the characters of `prefix`
HasPrefix(model, prefix) ==
  /\ Len(prefix) <= Len(model)
  /\ \A i \in 1..Len(prefix) : model[i] = prefix[i]

ModelParamsReturned == call.op = "getModelParams" /\ result.returned

\* C39: for every model identifier getModelParams returns exactly one of
\* max_tokens and max_completion_tokens, the latter exactly when the identifier
\* starts with gpt-4o, gpt-4.1, gpt-5, o1 or o3, and it returns temperature
\* exactly when the identifier does not start with o1, o3 or gpt-5.
C39_ModelParamsByPrefix ==
  ModelParamsReturned =>
    LET model == call.args.model
        params == DOMAIN result.value
        newer == \/ HasPrefix(model, << "g", "p", "t", "-", "4", "o" >>)
                 \/ HasPrefix(model, << "g", "p", "t", "-", "4", ".", "1" >>)
                 \/ HasPrefix(model, << "g", "p", "t", "-", "5" >>)
                 \/ HasPrefix(model, << "o", "1" >>)
                 \/ HasPrefix(model, << "o", "3" >>)
        reasoning == \/ HasPrefix(model, << "o", "1" >>)
                     \/ HasPrefix(model, << "o", "3" >>)
                     \/ HasPrefix(model, << "g", "p", "t", "-", "5" >>)
    IN  /\ ("max_tokens" \in params) # ("max_completion_tokens" \in params)
        /\ ("max_completion_tokens" \in params) = newer
        /\ ("temperature" \in params) = ~reasoning

C39_Witness ==
  /\ ModelParamsReturned
  /\ call.args.model = << "g", "p", "t", "-", "4", "o", "-", "m" >>
  /\ DOMAIN result.value = { "max_completion_tokens", "temperature" }
  /\ result.value["max_completion_tokens"] = 1000

\* the times of the cue lines of the text, in order
CueTimes(lines) ==
  LET cue(line) == line.kind = "cue"
      cues == SelectSeq(lines, cue)
  IN  [i \in DOMAIN cues |-> parseTimestamp(cues[i].parts)]

NoTextLine(lines) == \A i \in DOMAIN lines : lines[i].kind # "text"

LinesParsed == call.op = "parseTranscript" /\ result.returned

\* C37: the chunks of parseTranscript carry the indices 0, 1, 2, ... in order,
\* every chunk has text, and when the cue times do not decrease each chunk
\* starts at the end time of the chunk before it; an empty or header-only
\* input gives no chunk.
C37_DenseIndicesAndContiguousChunks ==
  LinesParsed =>
    LET lines == call.args.transcriptText
        chunks == result.value
        times == CueTimes(lines)
    IN  /\ \A i \in DOMAIN chunks : chunks[i].index = i - 1
        /\ \A i \in DOMAIN chunks : chunks[i].content # << >>
        /\ (\A j \in 1..(Len(times) - 1) : times[j] <= times[j + 1]) =>
             \A i \in 2..Len(chunks) : chunks[i].startTime = chunks[i - 1].endTime
        /\ NoTextLine(lines) => chunks = << >>

C37_Witness ==
  /\ LinesParsed
  /\ call.args.transcriptText =
       << CueLine(<< 0, 0 >>), TextLine("words"), CueLine(<< 0, 30 >>), TextLine("words"),
          TextLine("words") >>
  /\ Len(result.value) = 2
  /\ result.value[2].index = 1
  /\ result.value[2].startTime = 30

BatchReturned == call.op = "extractVideoSnapshots" /\ result.returned

\* the timestamps that have a stored frame
StoredTimestamps(rows) == { rows[i].timestamp : i \in DOMAIN rows }

\* the timestamps whose stored frame carries a description
DescribedTimestamps(rows) ==
  { rows[i].timestamp : i \in { i \in DOMAIN rows : rows[i].description # NULL } }

\* C38: a failure of the extraction or of the analysis at one timestamp does not
\* end the batch: the call returns, the frame of every timestamp whose own
\* extraction succeeds is stored, whatever failed before it, and with the
\* database the description of every frame whose own analysis succeeds is stored.
C38_FailureDoesNotStopBatch ==
  BatchReturned =>
    LET rows == snapshots[result.value]
    IN  /\ StoredTimestamps(rows) = call.args.extracted
        /\ (isConnected /\ openaiInitialized) =>
             DescribedTimestamps(rows) = call.args.analyzed

C38_Witness ==
  /\ BatchReturned
  /\ isConnected /\ openaiInitialized
  /\ call.args.extracted = { 5, 10 }
  /\ call.args.analyzed = { 10 }
  /\ StoredTimestamps(snapshots[result.value]) = { 5, 10 }
  /\ DescribedTimestamps(snapshots[result.value]) = { 10 }

\* C36: when the embedding of the question or the search of the chunks fails,
\* the request sent to the provider still carries the metadata of the asset and
\* the related videos; only the transcript sections and the frames are missing.
C36_MetadataSurvivesContextFailure ==
  (ChatReturned /\ call.args.fault \in { "embedding", "search" }) =>
    \A i \in DOMAIN providerCalls :
      /\ providerCalls[i].metadata = VideoMetadata(call.args.videoUuid)
      /\ providerCalls[i].relatedVideos = RelatedVideos(call.args.videoUuid)

\* the asset has a stored chunk without embedding
LacksEmbedding(rows) == \E i \in DOMAIN rows : rows[i].embedding = NoEmbedding

\* C33: when an asset has stored chunks without embedding, the transcript stage
\* of a later run, with the embedding provider available, leaves every stored
\* chunk of the asset with an embedding.
C33_RetriggerFillsEmbeddings ==
  [][\A r \in BagToSet(runs) :
       (ProcessTranscript(r) /\ openaiInitialized /\ LacksEmbedding(embeddings[r.asset]))
         => ~LacksEmbedding(embeddings'[r.asset])]_vars

\* the status edges of a processing record; the record is created pending
StatusEdges ==
  { << "none", "pending" >>, << "pending", "processing" >>,
    << "processing", "completed" >>, << "processing", "error" >>,
    << "error", "pending" >>, << "completed", "pending" >> }

\* C32: every change of the status of a processing record follows one of the
\* edges pending -> processing, processing -> completed, processing -> error,
\* error -> pending (or completed -> pending, on a re-trigger).
C32_StatusFollowsEdges ==
  [][\A a \in Assets :
       LET before == getProcessingStatus(queue, a)
           after == getProcessingStatus(queue', a)
       IN  before # after => << before, after >> \in StatusEdges]_vars

\* the last hook or route that ran was the deletion of an asset: it has not
\* been enqueued since
DeletedAndNotEnqueued == call.op = "cleanupVideoData" /\ result.returned

\* C35: after an asset was deleted and not enqueued again, it has no stored
\* chunk, no frame description and no processing record, also when a run or a
\* transcript retry timer of the asset was pending at the deletion.
C35_DeletedAssetStaysEmpty ==
  DeletedAndNotEnqueued =>
    LET a == call.args.videoUuid
    IN  /\ embeddings[a] = << >>
        /\ snapshots[a] = << >>
        /\ ~QueueHas(queue, a)

\* what the call of the writer wrote is in the store
WriteIsStored(w) ==
  CASE w.op = "saveVideoEmbedding" ->
         \E i \in DOMAIN embeddings[w.asset] :
           embeddings[w.asset][i] = ChunkRow(1, WrittenChunk)
    [] w.op = "saveVideoSnapshot" ->
         \E i \in DOMAIN snapshots[w.asset] :
           snapshots[w.asset][i].timestamp = WrittenTimestamp
    [] w.op = "addToProcessingQueue" -> QueueHas(queue, w.asset)
    [] w.op = "updateProcessingStatus" ->
         QueueHas(w.rows, w.asset) => getProcessingStatus(queue, w.asset) = "processing"

\* C34: with the fallback backend, what a call wrote for one asset is still
\* stored after a concurrent call for another asset has written: no write for
\* one asset is lost because of a write for the other.
C34_NoLostWriteAcrossAssets ==
  \A w \in BagToSet(runs) : w.pc = "done" => WriteIsStored(w)

\* C31: when every timer fires and every awaited call returns, a processing
\* record that is pending or processing eventually becomes completed or error.
C31_RecordReachesTerminalStatus ==
  \A a \in Assets :
    (getProcessingStatus(queue, a) \in { "pending", "processing" })
      ~> (getProcessingStatus(queue, a) \in { "completed", "error" })

====
